---- MODULE Spec2Model ----
(***************************************************************************)
(* Model of anil_agent: the AgentController control loop                   *)
(* (decision_loop.py) with its start/pause/resume/stop state machine and   *)
(* sliding-window rate limit, and the reconnecting BridgeClient            *)
(* (bridge_client.py).                                                     *)
(*                                                                         *)
(* Time.  The code reads time.time() (floats, seconds).  The model counts  *)
(* time in ticks of 20 s, so the 60 s window is Window = 3 ticks.  A       *)
(* timestamp is kept as its age (now - t), which is all the code ever      *)
(* computes from it, capped at Window + 1 (every age above Window takes    *)
(* the same branch of every comparison in _rate_limit).  time.sleep(s)     *)
(* with s > 0 sleeps at least s: the model rounds a sleep up to whole      *)
(* ticks, and a sleep of 0 takes no time.  Time passes (Tick) only while   *)
(* a worker is blocked in a sleep or in an external call.                  *)
(***************************************************************************)
EXTENDS Integers, Sequences, FiniteSets, TLC

\* ---------------------------------------------------------------- bounds
\* worker thread objects the model can tell apart
NWorkers == 2
\* iterations one worker run may complete (caps the local step counter)
MaxStep == 2
\* max_actions_per_minute is drawn from 1..MaxM (config.py accepts 1..10000)
MaxM == 3
MaxNow == 2
\* threads that call the BridgeClient concurrently
NClients == 2

\* ------------------------------------------------------ program constants
\* window = 60.0 seconds, in ticks of 20 s (decision_loop.py:154)
Window == 3
\* deque(maxlen=1200) of action timestamps, scaled with MaxM so that, as in
\* the code, the accepted range of max_actions_per_minute exceeds it
ActionTimesMaxLen == 2
\* time.sleep(0.25): idle poll, checkpoint skip, input-error back-off; one tick
PollTicks == 1
\* max(0.05, ...): the minimum rate-limit sleep, rounded up to one tick
MinSleepTicks == 1
RecentMaxLen == 10

WorkerIds == 1..NWorkers
NoThread == 0

Min(a, b) == IF a < b THEN a ELSE b
Max(a, b) == IF a > b THEN a ELSE b

VARIABLES
  \* ---- AgentController fields
  stopEv,        \* self._stop (threading.Event)
  pausedEv,      \* self._paused (threading.Event)
  thread,        \* self._thread: NoThread or the id of the last thread created
  status,        \* self._status (AgentStatus)
  action_times,  \* self._action_times: ages of the recorded timestamps, oldest first
  M,             \* self._max_actions_per_minute
  stepDelay,     \* self._step_delay_s, in ticks
  \* ---- one _run_loop activation per worker thread
  wpc,           \* position in _run_loop ("dead": not started or returned)
  step,          \* local step
  events,        \* local events: "none" (empty list), "plain", "badge"
  state,         \* local state: "empty" ({}) or "s"
  screenshot,    \* local screenshot_png: "empty" (b"") or "png"
  action,        \* local action
  sleepRem,      \* ticks left of the time.sleep the worker is in
  \* ---- the thread that calls start/pause/resume/stop (the bot's event loop)
  cpc,
  \* ---- history variables (observations, not program state)
  executed,      \* ages (< Window) of the timestamps recorded after a successful execution
  gIter,         \* per worker: what happened in its current iteration
  gCall,         \* about the control call in progress
  gWin,          \* about the interval from a pause() to the next resume()
  \* ---- the steps directory of the run (run_paths.steps_dir)
  steps_dir,     \* the files: file name -> content
  gLog,          \* history: the step indices log_step has persisted
  \* ---- BridgeClient
  brLock,        \* self._lock: 0 (free) or the thread that holds it
  brConn,        \* self._sock, self._file, and which connect call opened them
  brPc,          \* per calling thread: its position in request() or close()
  brAttempt,     \* per calling thread: the loop variable attempt of request()
  brOut,         \* per calling thread: what its last request() returned
  gBr,           \* per calling thread: history of the request() in progress
  gBrLast,       \* how the request() that ended last ended
  \* ---- a call of one of BridgeClient's typed wrappers
  wrapCall,      \* the wrapper called, the response it got, how it ended
  \* ---- AgentController._status and its readers, statement by statement
  status_lock,   \* self._status_lock: "free" or the thread that holds it
  status_obj,    \* self._status: scalars, and references for the two dicts
  heap,          \* the dict objects: reference -> content
  spc,           \* per thread: its position in a "with self._status_lock" block
  todo,          \* per thread: the assignments of its block still to execute
  wloc,          \* the worker's locals step, state, action
  snapshot,      \* what the reader's last get_status() returned
  now,           \* the clock utc_now_iso() reads
  gDone,         \* history: the values written by each completed iteration
  \* ---- AgentController._recent_actions
  recent_actions,\* on: the deque is followed in this specification; q: the
                 \* deque; history gFailed: per entry, whether the actuation
                 \* of the iteration that appended it had failed
  \* ---- a second thread that calls start()
  cpc2,          \* its position in start()
  \* ---- history variable
  gStop,         \* per worker: what it has done since stop() set the stop signal
  gResume        \* per worker: resume() has cleared the pause signal while the
                 \* worker was idling on it, and no pause() or stop() has
                 \* set a signal since

ctlVars == <<stopEv, pausedEv, thread, status, action_times, M, stepDelay,
             wpc, step, events, state, screenshot, action, sleepRem, cpc,
             executed, gIter, gCall, gWin>>
fileVars == <<steps_dir, gLog>>
brVars == <<brLock, brConn, brPc, brAttempt, brOut, gBr, gBrLast>>
wrapVars == <<wrapCall>>
statVars == <<status_lock, status_obj, heap, spc, todo, wloc, snapshot, now,
              gDone>>
recVars == <<recent_actions>>
callVars == <<cpc2>>
histVars == <<gStop, gResume>>
extOther == <<brVars, wrapVars, statVars, recVars, callVars>>
extVars == <<extOther, histVars>>
vars == <<ctlVars, fileVars, extVars>>

\* ------------------------------------------------------------- actions (data)
\* An Action value: WaitAction or ButtonsAction (action_schema.py:51-64);
\* nb is the number of button presses (0 for a WaitAction).
MkAction(t, w, n, nb) == [type |-> t, wait_ms |-> w, note |-> n, nb |-> nb]

safe_fallback_action(note) == MkAction("wait", 500, note, 0)

\* The texts the decision provider may return, as the fields validation reads.
\* kind: "json" (a JSON object), "notjson" (text that is no JSON), "nontext"
\* (no str at all, e.g. None from parts[0].text); wait_ms = -1: field absent.
MkPayload(k, t, w, nb, keysOk) ==
  [kind |-> k, type |-> t, wait_ms |-> w, nb |-> nb, keysOk |-> keysOk]

Payloads ==
  { MkPayload("json", "wait", 0, 0, TRUE),
    MkPayload("json", "wait", 60001, 0, TRUE),
    MkPayload("json", "wait", -1, 0, TRUE),
    MkPayload("json", "buttons", 0, 1, TRUE),
    MkPayload("json", "buttons", 10001, 1, TRUE),
    MkPayload("json", "buttons", 0, 21, TRUE),
    MkPayload("json", "buttons", 0, 1, FALSE),
    MkPayload("json", "move", 0, 0, TRUE),
    MkPayload("notjson", "", 0, 0, TRUE),
    MkPayload("nontext", "", 0, 0, TRUE) }

\* _ACTION_ADAPTER.validate_json: "ok", "ValidationError" or "Exception"
ParseOutcome(p) ==
  IF p.kind = "nontext" THEN "Exception"
  ELSE IF p.kind = "notjson" THEN "ValidationError"
  ELSE IF p.type = "wait"
    THEN IF p.wait_ms = -1 \/ (p.wait_ms >= 0 /\ p.wait_ms <= 60000)
         THEN "ok" ELSE "ValidationError"
  ELSE IF p.type = "buttons"
    THEN IF /\ p.nb <= 20
            /\ p.keysOk
            /\ (p.wait_ms = -1 \/ (p.wait_ms >= 0 /\ p.wait_ms <= 10000))
         THEN "ok" ELSE "ValidationError"
  ELSE "ValidationError"

parse_action_json(p) ==
  IF p.type = "wait"
  THEN MkAction("wait", IF p.wait_ms = -1 THEN 500 ELSE p.wait_ms, "", 0)
  ELSE MkAction("buttons", IF p.wait_ms = -1 THEN 200 ELSE p.wait_ms, "", p.nb)

\* the provider's text validated without the except clauses
try_parse_action_unchecked(p) == parse_action_json(p)

try_parse_action(p) ==
  IF ParseOutcome(p) = "ok" THEN parse_action_json(p)
  ELSE IF ParseOutcome(p) = "ValidationError"
    THEN safe_fallback_action("schema_validation_error")
  ELSE safe_fallback_action("parse_error")

\* time.sleep(ms / 1000.0) in ticks of 20 s, rounded up
SleepTicks(ms) == IF ms <= 0 THEN 0 ELSE (ms + 19999) \div 20000


\* ------------------------------------------------------------ controller state
NoAction == MkAction("none", 0, "", 0)

\* action_to_dict: the JSON object of an Action (action_schema.py:111-114)
action_to_dict(a) ==
  [type |-> a.type, wait_ms |-> a.wait_ms, note |-> a.note, buttons |-> a.nb]
\* AgentStatus.last_action = None
NoneDict == [type |-> "none", wait_ms |-> 0, note |-> "", buttons |-> 0]

\* AgentStatus() (decision_loop.py:28-36); last_action_t: "none" or "t"
InitStatus ==
  [running |-> FALSE, paused |-> TRUE, last_step |-> 0, last_state |-> "none",
   last_action |-> NoneDict, last_error |-> "none", last_action_t |-> "none"]

\* gIter[w].sig: the signals raised while w was in steps 2-4 of its iteration:
\* "none"; "stop" (stop() set the stop signal; it stays); "pause" (pause() set
\* the pause signal); "resumed" (resume() cleared it again after that).
\* gIter[w].decFail: the decision of the iteration failed.
\* gIter[w].fail: the step of the iteration that failed last: "none", "bridge",
\* "capture", "decision", "actuation" or "persistence".
\* gIter[w].logged: log_step returned normally in the iteration.
\* gIter[w].execFail: the actuation of the iteration failed.
\* gIter[w].gated: _rate_limit slept in the iteration.
\* gIter[w].execs: how often _execute_action was called in the iteration
\* (2: twice or more).
\* gIter[w].handler: whether the event handler was called in the iteration,
\* with which arguments, and whether it raised; set: a handler was set.
NoHandlerCall ==
  [set |-> FALSE, called |-> FALSE, events |-> "none", state |-> "empty",
   screenshot |-> "empty", raised |-> FALSE]
NoIter ==
  [sig |-> "none", decFail |-> FALSE, fail |-> "none", logged |-> FALSE,
   execFail |-> FALSE, gated |-> FALSE, handler |-> NoHandlerCall,
   execs |-> 0]
NoCall == [joinTimedOut |-> FALSE, sawAlive |-> FALSE, spawned |-> FALSE]
\* gWin: "closed", or since the pause() that opened the interval: "clean" (no
\* worker was between the checkpoint's reading of the pause signal and its
\* actuation when pause() set the signal), "past" (one was), "fetched" (a
\* worker has begun a bridge fetch since), "act_clean" / "act_past" (an
\* actuation began, with no fetch before it, in a clean / past interval)
NoWin == "closed"
\* gStop[w].set: stop() has set the stop signal in the life of worker w;
\* past: w was then between the step-5 checkpoint and its actuation;
\* began: w has since gone from the loop condition into the loop body;
\* acts: the calls of _execute_action w has made since (2: two or more);
\* paused: the pause signal was set then; on: the history is followed in
\* this specification.
NoStop == [set |-> FALSE, past |-> FALSE, began |-> FALSE, acts |-> 0,
           paused |-> FALSE, on |-> TRUE]
StopOff == [NoStop EXCEPT !.on = FALSE]
InitHist(on) ==
  /\ gStop = [w \in WorkerIds |-> IF on THEN NoStop ELSE StopOff]
  /\ gResume = [w \in WorkerIds |-> FALSE]

\* the steps directory as setup_logging creates it: empty
NoFiles == [n \in {} |-> "none"]
\* gLog.max: the highest step index persisted so far (-1: none); gLog.again:
\* an index at or below it was persisted after it
NoLog == [max |-> -1, again |-> FALSE]

\* AgentController.__init__ (decision_loop.py:83-103)
InitCtl(m, sd) ==
  /\ stopEv = FALSE
  /\ pausedEv = TRUE
  /\ thread = NoThread
  /\ status = InitStatus
  /\ action_times = <<>>
  /\ M = m
  /\ stepDelay = sd
  /\ wpc = [w \in WorkerIds |-> "dead"]
  /\ step = [w \in WorkerIds |-> 0]
  /\ events = [w \in WorkerIds |-> "none"]
  /\ state = [w \in WorkerIds |-> "empty"]
  /\ screenshot = [w \in WorkerIds |-> "empty"]
  /\ action = [w \in WorkerIds |-> NoAction]
  /\ sleepRem = [w \in WorkerIds |-> 0]
  /\ cpc2 = "idle"
  /\ cpc = "idle"
  /\ executed = <<>>
  /\ gIter = [w \in WorkerIds |-> NoIter]
  /\ gCall = NoCall
  /\ gWin = NoWin
  /\ steps_dir = NoFiles
  /\ gLog = NoLog

BrThreads == 1..NClients
\* no connection: self._sock = None, self._file = None; by: the thread and
\* the attempt whose connect opened the connection, while the call of that
\* thread lasts (<<0, 0>>: none, or opened before the call that holds the lock);
\* unread: the requests written on the connection whose response line has not
\* been read, oldest first, each "own" (written by the call that holds the
\* lock) or "old" (written by an earlier call)
NoConn == [sock |-> FALSE, file |-> FALSE, by |-> <<0, 0>>, unread |-> <<>>]
\* attempts: cycles begun; failed: cycles that raised; via: the by of the
\* connection the answer was read on; line: the line read last;
\* writes: payloads written (3: three or more); wrote: the connection and the
\* attempt of the last write; answer: whose request the line read last
\* answers ("none": no line read)
NoBrCall == [attempts |-> 0, failed |-> 0, via |-> <<0, 0>>, line |-> "none",
             writes |-> 0, wrote |-> [by |-> <<0, 0>>, attempt |-> 0],
             answer |-> "none"]
NoResponse == [ok |-> "none"]

\* BridgeClient.__init__ (bridge_client.py:23-27)
InitBr ==
  /\ brLock = 0
  /\ brConn = NoConn
  /\ brPc = [t \in BrThreads |-> "idle"]
  /\ brAttempt = [t \in BrThreads |-> 0]
  /\ brOut = [t \in BrThreads |-> NoResponse]
  /\ gBr = [t \in BrThreads |-> NoBrCall]
  /\ gBrLast = "none"

\* ---- a typed wrapper call (bridge_client.py:80-107)
\* A response is the dict request() returned. Each field is given by what the
\* wrappers look at: its presence, its truth value and its type.
OkValues == {"missing", "false", "true", "one"}
PongValues == {"missing", "false", "true", "str"}
StateValues == {"missing", "null", "dict", "list"}
EventsValues == {"missing", "null", "dict", "list"}
Responses ==
  [ok : OkValues, pong : PongValues, state : StateValues,
   events : EventsValues]
NoWrap ==
  [wrapper |-> "none",
   resp |-> [ok |-> "missing", pong |-> "missing", state |-> "missing",
             events |-> "missing"],
   out |-> [kind |-> "none", value |-> "none"]]
InitWrap == wrapCall = NoWrap

\* ---- self._status, statement by statement (decision_loop.py:28-36, 98-99)
StatThreads == {"worker", "control", "reader"}
\* the dict objects that can be alive at once: two of the live status, the
\* worker's local state, two of the reader's snapshot
ObjIds == 1..5
NoneRef == 0
\* AgentStatus(): last_state and last_action are references (NoneRef: None),
\* last_action_t is 0 (None) or the time read by utc_now_iso()
InitStatusObj ==
  [running |-> FALSE, paused |-> TRUE, last_step |-> 0,
   last_state |-> NoneRef, last_action |-> NoneRef, last_error |-> "none",
   last_action_t |-> 0]
\* the value of an AgentStatus: its dicts read through the references
Deref(h, ref) == IF ref = NoneRef THEN "None" ELSE h[ref]
DeepValue(h, so) ==
  [so EXCEPT !.last_state = Deref(h, so.last_state),
             !.last_action = Deref(h, so.last_action)]
\* snapshot.held: get_status() has returned; snapshot.v: the object the reader
\* holds; history: snapshot.asReturned, its value when it was returned, and
\* snapshot.mutated, whether the reader has changed it since
NoSnapshot ==
  [held |-> FALSE, v |-> InitStatusObj,
   asReturned |-> DeepValue([i \in ObjIds |-> "free"], InitStatusObj),
   mutated |-> FALSE]
\* the worker's locals: pc "dead" (no thread), stop: self._stop; history
\* bareRead: the worker's last step read self._status without the lock
NoLocals ==
  [pc |-> "dead", stop |-> FALSE, step |-> 0, state |-> NoneRef,
   action |-> "none", bareRead |-> FALSE]
InitStat ==
  /\ status_lock = "free"
  /\ status_obj = InitStatusObj
  /\ heap = [i \in ObjIds |-> "free"]
  /\ spc = [t \in StatThreads |-> "idle"]
  /\ todo = [t \in StatThreads |-> <<>>]
  /\ wloc = NoLocals
  /\ snapshot = NoSnapshot
  /\ now = 1
  /\ gDone = {}

\* self._recent_actions = deque(maxlen=10)  (decision_loop.py:100)
InitRecent(on) == recent_actions = [on |-> on, q |-> <<>>, gFailed |-> <<>>]

Alive(w) == wpc[w] # "dead"
AliveSet == {w \in WorkerIds : Alive(w)}

\* positions of _run_loop, named by source line
SleepPcs == {"l176", "l160", "l208", "l167", "l231", "l253"}
ExternalPcs == {"l187", "l195", "l202", "h122", "h123", "l212", "l225", "l234"}
\* the external calls during which the model lets time pass: the actuation
\* and the step logging (a delay anywhere between the rate gate and the
\* recording of the timestamp, or between the recording and the next gate,
\* gives the same timestamps and the same readings of the clock)
TimedCallPcs == {"l225", "l234"}
\* steps 2-4 of an iteration: bridge fetch, capture, event dispatch
PerceptionPcs == {"l187", "l195", "l202", "h122", "h123"}
\* after the step-5 checkpoint, until the end of the iteration
\* idling on the pause signal: the loop condition, the pause check and its sleep
PausePollPcs == {"l174", "l175", "l176"}
\* between the step-5 checkpoint and the call of _execute_action
PastCheckpointPcs == {"l212", "l225"}
PostCheckpointPcs == {"l212", "l225", "l167", "l231", "l234", "l245", "l253"}

\* deque(maxlen=n).append(x): a full deque drops its oldest entry
DequeAppend(q, x, n) == IF Len(q) >= n THEN Append(Tail(q), x) ELSE Append(q, x)

\* while self._action_times and (now - self._action_times[0]) > window: popleft()
RECURSIVE Prune(_)
Prune(q) == IF q # <<>> /\ Head(q) > Window THEN Prune(Tail(q)) ELSE q

\* time.sleep(ticks) entered by worker w
Sleep(w, ticks) == sleepRem' = [sleepRem EXCEPT ![w] = ticks]

\* the ages after d more ticks
Aged(q) == [i \in 1..Len(q) |-> Min(q[i] + 1, Window + 1)]
InWindow(q) == SelectSeq(q, LAMBDA a : a < Window)

\* ---------------------------------------------------------------- time
Tick ==
  /\ \/ \E w \in WorkerIds : wpc[w] \in SleepPcs /\ sleepRem[w] > 0
     \/ \E w \in WorkerIds : wpc[w] \in TimedCallPcs
     \/ AliveSet = {}
  /\ action_times' = Aged(action_times)
  /\ executed' = InWindow([i \in 1..Len(executed) |-> executed[i] + 1])
  /\ sleepRem' = [w \in WorkerIds |-> Max(0, sleepRem[w] - 1)]
  /\ UNCHANGED <<stopEv, pausedEv, thread, status, M, stepDelay, wpc, step,
                 events, state, screenshot, action, cpc, gIter, gCall, gWin>>
  /\ UNCHANGED <<fileVars, extVars>>


\* ------------------------------------------------------------ StepLogger
\* f"{step:06d}": at least StepDigits decimal digits, zero-padded
StepDigits == 6
RECURSIVE DecimalDigits(_)
DecimalDigits(n) == IF n < 10 THEN <<n>> ELSE Append(DecimalDigits(n \div 10), n % 10)
RECURSIVE ZeroPad(_, _)
ZeroPad(ds, width) == IF Len(ds) >= width THEN ds ELSE ZeroPad(<<0>> \o ds, width)
Format06d(st) == ZeroPad(DecimalDigits(st), StepDigits)
PngName(st) == [stem |-> Format06d(st), ext |-> "png"]
JsonName(st) == [stem |-> Format06d(st), ext |-> "json"]

\* the step index a file name stands for
RECURSIVE DigitsValue(_)
DigitsValue(ds) ==
  IF ds = <<>> THEN 0 ELSE 10 * DigitsValue(SubSeq(ds, 1, Len(ds) - 1)) + ds[Len(ds)]
FilesOf(dir, st, ext_) == {n \in DOMAIN dir : n.ext = ext_ /\ DigitsValue(n.stem) = st}

\* a write that leaves an existing file as it is
WriteFile_keeps(dir, name, content) ==
  [n \in DOMAIN dir \cup {name} |-> IF n \in DOMAIN dir THEN dir[n] ELSE content]

\* write_bytes / write_text: the file of that name is created or replaced
WriteFile(dir, name, content) ==
  [n \in DOMAIN dir \cup {name} |-> IF n = name THEN content ELSE dir[n]]

\* the record log_step writes; its "t" is the time of the call (58-65)
StepRecord(st, state_, events_, action_) ==
  [step |-> st, t |-> "t", state |-> state_, events |-> events_,
   action |-> action_to_dict(action_), screenshot |-> PngName(st)]

\* StepLogger.log_step returning normally (43-66)
log_step(dir, st, state_, events_, action_, screenshot_png) ==
  WriteFile(WriteFile(dir, PngName(st), screenshot_png),
            JsonName(st), StepRecord(st, state_, events_, action_))

\* ------------------------------------------------------------ the worker
Goto(w, pc) == wpc' = [wpc EXCEPT ![w] = pc]

\* with self._status_lock: self._status.last_error = kind
SetError(kind) == status' = [status EXCEPT !.last_error = kind]

\* self._paused.set(), by pause() from any thread
SetPaused ==
  /\ pausedEv' = TRUE
  /\ gIter' = [w \in WorkerIds |->
                 IF wpc[w] \in PerceptionPcs /\ gIter[w].sig # "stop"
                 THEN [gIter[w] EXCEPT !.sig = "pause"] ELSE gIter[w]]
  /\ gWin' = IF gWin # "closed" THEN gWin
             ELSE IF \E w \in WorkerIds : wpc[w] \in {"l207b", "l212", "l225"}
                  THEN "past" ELSE "clean"

\* an except clause of a per-step handler has run for worker w
Failed(w, kind) ==
  gIter' = [gIter EXCEPT ![w].fail = kind,
                         ![w].execFail = @ \/ kind = "actuation"]

\* worker w has called self._execute_action; failed: the call raised and the
\* except clause of lines 227-231 has run
Actuated(w, failed) ==
  gIter' = [gIter EXCEPT ![w].execs = Min(2, @ + 1),
                         ![w].fail = IF failed THEN "actuation" ELSE @,
                         ![w].execFail = @ \/ failed]

\* a per-step handler that lets the exception through to the loop's own handler
AfterFailure_escapes(next) == "l255"

\* where the loop goes on after the except clause of a per-step handler: at
\* the statement after the try statement
AfterFailure(next) == next

\* a gate that only ever sleeps the minimum
RateLimitSleep_minimum(q, m) ==
  IF m > 0 /\ Len(q) >= m THEN MinSleepTicks ELSE 0

\* the sleep _rate_limit asks for, in ticks (0: none), given the pruned deque
RateLimitSleep(q, m) ==
  IF m > 0 /\ Len(q) >= m THEN Max(MinSleepTicks, Window - q[1]) ELSE 0

\* while not self._stop.is_set()  (decision_loop.py:174); a run that has
\* completed cap iterations takes no further turn unless it is to stop
\* a loop that never reads the stop signal
LoopExits_never == FALSE
\* while not self._stop.is_set()  (174): TRUE = the loop is left
LoopExits == stopEv

W_LoopTop(w, cap) ==
  /\ wpc[w] = "l174"
  /\ stopEv \/ step[w] < cap
  /\ IF LoopExits THEN Goto(w, "l259") ELSE Goto(w, "l175")
  /\ UNCHANGED <<stopEv, pausedEv, thread, status, action_times, M, stepDelay,
                 step, events, state, screenshot, action, sleepRem, cpc,
                 executed, gIter, gCall, gWin>>
  /\ gStop' = [gStop EXCEPT ![w].began = @ \/ (gStop[w].set /\ ~stopEv)]
  /\ UNCHANGED <<fileVars, extOther, gResume>>

\* if self._paused.is_set(): time.sleep(0.25); continue  (175-177)
W_CheckPaused(w) ==
  /\ wpc[w] = "l175"
  /\ IF pausedEv
     THEN Goto(w, "l176") /\ Sleep(w, PollTicks)
     ELSE Goto(w, "l179") /\ UNCHANGED sleepRem
  /\ UNCHANGED <<stopEv, pausedEv, thread, status, action_times, M, stepDelay,
                 step, events, state, screenshot, action, cpc,
                 executed, gIter, gCall, gWin>>
  /\ UNCHANGED <<fileVars, extVars>>

\* events, state, screenshot_png and action as lines 181-184 assign them; the
\* values of the iteration before are never read again, so the model assigns
\* them already when that iteration ends
ResetLocals(w) ==
  /\ events' = [events EXCEPT ![w] = "none"]
  /\ state' = [state EXCEPT ![w] = "empty"]
  /\ screenshot' = [screenshot EXCEPT ![w] = "empty"]
  /\ action' = [action EXCEPT ![w] = safe_fallback_action("uninitialized")]

\* a time.sleep returns and the loop continues at the top (176, 208, 253);
\* the iteration the worker was in, if any, is over
W_SleepDoneToTop(w) ==
  /\ wpc[w] \in {"l176", "l208", "l253"}
  /\ sleepRem[w] = 0
  /\ Goto(w, "l174")
  /\ ResetLocals(w)
  /\ gIter' = [gIter EXCEPT ![w] = NoIter]
  /\ UNCHANGED <<stopEv, pausedEv, thread, status, action_times, M, stepDelay,
                 step, sleepRem, cpc, executed, gCall, gWin>>
  /\ UNCHANGED <<fileVars, extVars>>

\* self._rate_limit() and the resets of the iteration's locals (179-184)
W_RateLimit(w) ==
  /\ wpc[w] = "l179"
  /\ LET pruned == IF M <= 0 THEN action_times ELSE Prune(action_times)
         s == RateLimitSleep(pruned, M)
     IN /\ action_times' = pruned
        /\ IF s > 0
           THEN Goto(w, "l160") /\ Sleep(w, s)
           ELSE Goto(w, "l187") /\ UNCHANGED sleepRem
        /\ gIter' = [gIter EXCEPT ![w].gated = (s > 0)]
  /\ ResetLocals(w)
  /\ UNCHANGED <<stopEv, pausedEv, thread, status, M, stepDelay, step, cpc,
                 executed, gCall, gWin>>
  /\ UNCHANGED <<fileVars, extVars>>

\* time.sleep(sleep_s) of _rate_limit returns (160)
W_RateSleepDone(w) ==
  /\ wpc[w] = "l160"
  /\ sleepRem[w] = 0
  /\ Goto(w, "l187")
  /\ UNCHANGED <<stopEv, pausedEv, thread, status, action_times, M, stepDelay,
                 step, events, state, screenshot, action, sleepRem, cpc,
                 executed, gIter, gCall, gWin>>
  /\ UNCHANGED <<fileVars, extVars>>

\* state = get_state(); events = get_events(), or the except branch (186-192)
W_Bridge(w, E) ==
  /\ wpc[w] = "l187"
  /\ \/ \E ev \in E.events :
          /\ state' = [state EXCEPT ![w] = "s"]
          /\ events' = [events EXCEPT ![w] = ev]
          /\ Goto(w, "l195")
          /\ UNCHANGED <<status, gIter>>
     \/ \* get_state raises
        /\ E.bridgeFail
        /\ SetError("bridge_error")
        /\ Failed(w, "bridge")
        /\ Goto(w, AfterFailure("l195"))
        /\ UNCHANGED <<state, events>>
     \/ \* get_state returns, get_events raises
        /\ E.bridgeFail
        /\ state' = [state EXCEPT ![w] = "s"]
        /\ SetError("bridge_error")
        /\ Failed(w, "bridge")
        /\ Goto(w, AfterFailure("l195"))
        /\ UNCHANGED events
  /\ gWin' = IF gWin \in {"clean", "past"} THEN "fetched" ELSE gWin
  /\ UNCHANGED <<stopEv, pausedEv, thread, action_times, M, stepDelay,
                 step, screenshot, action, sleepRem, cpc,
                 executed, gCall>>
  /\ UNCHANGED <<fileVars, extVars>>

\* screenshot_png, _ = self._capture.capture(), or the except branch (194-199)
W_Capture(w, E) ==
  /\ wpc[w] = "l195"
  /\ \/ \E shot \in E.shots :
          /\ screenshot' = [screenshot EXCEPT ![w] = shot]
          /\ Goto(w, "l202")
          /\ UNCHANGED <<status, gIter>>
     \/ /\ E.captureFail
        /\ SetError("capture_error")
        /\ Failed(w, "capture")
        /\ Goto(w, AfterFailure("l202"))
        /\ UNCHANGED screenshot
  /\ UNCHANGED <<stopEv, pausedEv, thread, action_times, M, stepDelay,
                 step, events, state, action, sleepRem, cpc,
                 executed, gCall, gWin>>
  /\ UNCHANGED <<fileVars, extVars>>

\* a dispatch that calls the handler in every iteration
HandlerCalled_always(h, ev) == h
\* if self._on_events and events  (202); h: a handler is set
HandlerCalled(h, ev) == h /\ ev # "none"

\* if self._on_events and events: self._on_events(...) (201-205); the handler
\* of main.py returns or raises (caught) without touching the controller,
\* except for a new badge, where it calls agent.pause() (main.py:45-51)
W_Dispatch(w, E) ==
  /\ wpc[w] = "l202"
  /\ \E h \in E.handlers :
       IF HandlerCalled(h, events[w])
       THEN \/ \* the handler runs: to its end, or as far as agent.pause()
               /\ gIter' = [gIter EXCEPT ![w].handler =
                              [set |-> h, called |-> TRUE, events |-> events[w],
                               state |-> state[w],
                               screenshot |-> screenshot[w], raised |-> FALSE]]
               /\ IF events[w] = "badge" THEN Goto(w, "h122")
                  ELSE Goto(w, "l207")
            \/ \* the handler raises; except Exception logs it (204-205)
               /\ E.handlerRaise
               /\ gIter' = [gIter EXCEPT ![w].handler =
                              [set |-> h, called |-> TRUE, events |-> events[w],
                               state |-> state[w],
                               screenshot |-> screenshot[w], raised |-> TRUE]]
               /\ Goto(w, AfterFailure("l207"))
       ELSE /\ Goto(w, "l207")
            /\ gIter' = [gIter EXCEPT ![w].handler.set = h]
  /\ UNCHANGED <<stopEv, pausedEv, thread, status, action_times, M, stepDelay,
                 step, events, state, screenshot, action, sleepRem, cpc,
                 executed, gCall, gWin>>
  /\ UNCHANGED <<fileVars, extVars>>

\* agent.pause() in the handler: self._paused.set() (122)
W_HandlerPauseSet(w) ==
  /\ wpc[w] = "h122"
  /\ SetPaused
  /\ Goto(w, "h123")
  /\ UNCHANGED <<stopEv, thread, status, action_times, M, stepDelay,
                 step, events, state, screenshot, action, sleepRem, cpc,
                 executed, gCall>>
  /\ gResume' = [v \in WorkerIds |-> FALSE]
  /\ UNCHANGED <<fileVars, extOther, gStop>>

\* agent.pause() in the handler: status.paused = True (123-124); the rest of
\* the handler returns or raises
W_HandlerPauseStatus(w) ==
  /\ wpc[w] = "h123"
  /\ status' = [status EXCEPT !.paused = TRUE]
  /\ Goto(w, "l207")
  /\ UNCHANGED <<stopEv, pausedEv, thread, action_times, M, stepDelay,
                 step, events, state, screenshot, action, sleepRem, cpc,
                 executed, gIter, gCall, gWin>>
  /\ UNCHANGED <<fileVars, extVars>>

\* a checkpoint that ignores the pause signal
CheckpointSkipsOnPause_never == FALSE
\* a checkpoint that reads the status field instead of the signal
CheckpointSkipsOnPause_status == status.paused

\* what the step-5 checkpoint does on reading each signal: TRUE = skip
CheckpointSkipsOnPause == pausedEv
\* a checkpoint that ignores the stop signal
CheckpointSkipsOnStop_never == FALSE
CheckpointSkipsOnStop == stopEv

\* if self._paused.is_set() ...: time.sleep(0.25); continue  (207-209)
W_CheckpointPaused(w) ==
  /\ wpc[w] = "l207"
  /\ IF CheckpointSkipsOnPause
     THEN Goto(w, "l208") /\ Sleep(w, PollTicks)
     ELSE Goto(w, "l207b") /\ UNCHANGED sleepRem
  /\ UNCHANGED <<stopEv, pausedEv, thread, status, action_times, M, stepDelay,
                 step, events, state, screenshot, action, cpc,
                 executed, gIter, gCall, gWin>>
  /\ UNCHANGED <<fileVars, extVars>>

\* ... or self._stop.is_set(): time.sleep(0.25); continue  (207-209)
W_CheckpointStop(w) ==
  /\ wpc[w] = "l207b"
  /\ IF CheckpointSkipsOnStop
     THEN Goto(w, "l208") /\ Sleep(w, PollTicks)
     ELSE Goto(w, "l212") /\ UNCHANGED sleepRem
  /\ UNCHANGED <<stopEv, pausedEv, thread, status, action_times, M, stepDelay,
                 step, events, state, screenshot, action, cpc,
                 executed, gIter, gCall, gWin>>
  /\ UNCHANGED <<fileVars, extVars>>


\* action = self._gemini.decide_action(...), or the except branch (211-222);
\* decide_action returns try_parse_action(text) (gemini_client.py:102)
W_Decide(w, E) ==
  /\ wpc[w] = "l212"
  /\ \/ \E p \in E.payloads :
          /\ action' = [action EXCEPT ![w] = try_parse_action(p)]
          /\ gIter' = [gIter EXCEPT ![w].decFail = (ParseOutcome(p) # "ok"),
                                    ![w].fail = IF ParseOutcome(p) # "ok"
                                                THEN "decision" ELSE @]
          /\ Goto(w, IF ParseOutcome(p) # "ok" THEN AfterFailure("l225") ELSE "l225")
          /\ UNCHANGED status
     \/ \* the provider raises
        /\ E.geminiRaise
        /\ SetError("gemini_error")
        /\ action' = [action EXCEPT ![w] = safe_fallback_action("gemini_error")]
        /\ gIter' = [gIter EXCEPT ![w].decFail = TRUE, ![w].fail = "decision"]
        /\ Goto(w, AfterFailure("l225"))
  /\ UNCHANGED <<stopEv, pausedEv, thread, action_times, M, stepDelay,
                 step, events, state, screenshot, sleepRem, cpc,
                 executed, gCall, gWin>>
  /\ UNCHANGED <<fileVars, extVars>>

\* self._action_times.append(time.time())  (226)
RecordTime ==
  /\ Len(executed) <= MaxM
  /\ action_times' = DequeAppend(action_times, 0, ActionTimesMaxLen)
  /\ executed' = Append(executed, 0)

\* an except branch that charges the failed actuation
AfterInputError_charged(times) == Append(times, 0)
\* the timestamps after the except branch of lines 227-231, which appends none
AfterInputError(times) == times

\* self._execute_action(action) is entered (224-225, 162-169)
W_Execute(w, E) ==
  /\ wpc[w] = "l225"
  /\ gWin' = IF gWin = "clean" THEN "act_clean"
             ELSE IF gWin = "past" THEN "act_past" ELSE gWin
  /\ IF action[w].type = "buttons"
     THEN \/ \* self._input.sequence(...) returns
             /\ RecordTime
             /\ Goto(w, "l234")
             /\ Actuated(w, FALSE)
             /\ UNCHANGED <<status, sleepRem>>
          \/ \* self._input.sequence(...) raises (227-231)
             /\ E.inputFail
             /\ SetError("input_error")
             /\ Actuated(w, TRUE)
             /\ Sleep(w, PollTicks)
             /\ Goto(w, AfterFailure("l231"))
             /\ action_times' = AfterInputError(action_times)
             /\ executed' = AfterInputError(executed)
     ELSE /\ IF action[w].type = "wait"
             THEN Sleep(w, SleepTicks(action[w].wait_ms))
             ELSE Sleep(w, PollTicks)
          /\ Goto(w, "l167")
          /\ Actuated(w, FALSE)
          /\ UNCHANGED <<status, action_times, executed>>
  /\ UNCHANGED <<stopEv, pausedEv, thread, M, stepDelay,
                 step, events, state, screenshot, action, cpc, gCall>>
  /\ gStop' = [gStop EXCEPT ![w].acts = IF gStop[w].set THEN Min(2, @ + 1) ELSE @]
  /\ UNCHANGED <<fileVars, extOther, gResume>>

\* the time.sleep of _execute_action returns; the timestamp is recorded (167, 226)
W_ExecSleepDone(w) ==
  /\ wpc[w] = "l167"
  /\ sleepRem[w] = 0
  /\ RecordTime
  /\ Goto(w, "l234")
  /\ UNCHANGED <<stopEv, pausedEv, thread, status, M, stepDelay,
                 step, events, state, screenshot, action, sleepRem, cpc,
                 gIter, gCall, gWin>>
  /\ UNCHANGED <<fileVars, extVars>>

\* a back-off after which the failed action is executed again
AfterBackoff_retries(next) == "l225"
\* where the loop goes on after the back-off of line 231: at the statement
\* after the try statement of the actuation
AfterBackoff(next) == next

\* time.sleep(0.25) after an input error returns (231)
W_InputErrSleepDone(w) ==
  /\ wpc[w] = "l231"
  /\ sleepRem[w] = 0
  /\ Goto(w, AfterBackoff("l234"))
  /\ UNCHANGED <<stopEv, pausedEv, thread, status, action_times, M, stepDelay,
                 step, events, state, screenshot, action, sleepRem, cpc,
                 executed, gIter, gCall, gWin>>
  /\ UNCHANGED <<fileVars, extVars>>

\* a loop that logs every iteration
LogsStep_always(shot) == TRUE
\* if screenshot_png  (234)
LogsStep(shot) == shot # "empty"

\* if screenshot_png: self._step_logger.log_step(...), or the except branch (233-243)
W_LogStep(w, E) ==
  /\ wpc[w] = "l234"
  /\ IF ~LogsStep(screenshot[w])
     THEN /\ Goto(w, "l245")
          /\ UNCHANGED <<steps_dir, gLog, gIter>>
     ELSE \/ \* log_step returns
             /\ steps_dir' = log_step(steps_dir, step[w], state[w], events[w],
                                      action[w], screenshot[w])
             /\ gLog' = [max |-> Max(gLog.max, step[w]),
                         again |-> gLog.again \/ step[w] <= gLog.max]
             /\ gIter' = [gIter EXCEPT ![w].logged = TRUE]
             /\ Goto(w, "l245")
          \/ \* write_bytes raises: the image is untouched or cut short
             /\ E.logFail
             /\ \/ UNCHANGED steps_dir
                \/ steps_dir' = WriteFile(steps_dir, PngName(step[w]), "partial")
             /\ Failed(w, "persistence")
             /\ Goto(w, AfterFailure("l245"))
             /\ UNCHANGED gLog
          \/ \* write_json raises: the image is written, the sidecar is
             \* untouched or cut short
             /\ E.logFail
             /\ LET d == WriteFile(steps_dir, PngName(step[w]), screenshot[w])
                IN \/ steps_dir' = d
                   \/ steps_dir' = WriteFile(d, JsonName(step[w]), "partial")
             /\ Failed(w, "persistence")
             /\ Goto(w, AfterFailure("l245"))
             /\ UNCHANGED gLog
  /\ UNCHANGED <<stopEv, pausedEv, thread, status, action_times, M, stepDelay,
                 step, events, state, screenshot, action, sleepRem, cpc,
                 executed, gCall, gWin>>
  /\ UNCHANGED extVars

\* self._recent_actions.append(self._status.last_action or {})  (251); the
\* dict action_to_dict returns is never empty
RecentAppend(ra, d, failed) ==
  [ra EXCEPT !.q = DequeAppend(@, d, RecentMaxLen),
             !.gFailed = DequeAppend(@, failed, RecentMaxLen)]

\* a status update that clears the error
ErrorAfterUpdate_cleared(err) == "none"
\* last_error after lines 245-249, which do not assign it
ErrorAfterUpdate(err) == err

\* a counter that leaves out the iterations in which a step failed
NextStep_skips_failed(st, failed) == IF failed THEN st ELSE st + 1
\* step += 1  (252), whatever happened in the iteration
NextStep(st, failed) == st + 1

\* the status update, the append to the recent actions, step += 1,
\* time.sleep(self._step_delay_s) is entered (245-253)
W_StatusUpdate(w) ==
  /\ wpc[w] = "l245"
  /\ status' = [status EXCEPT !.last_step = step[w],
                              !.last_state = state[w],
                              !.last_action = action_to_dict(action[w]),
                              !.last_action_t = "t",
                              !.last_error = ErrorAfterUpdate(@)]
  /\ step' = [step EXCEPT ![w] = NextStep(step[w], gIter[w].fail # "none")]
  /\ Sleep(w, stepDelay)
  /\ Goto(w, "l253")
  /\ recent_actions' =
       IF recent_actions.on
       THEN RecentAppend(recent_actions, action_to_dict(action[w]),
                         gIter[w].execFail)
       ELSE recent_actions
  /\ UNCHANGED <<stopEv, pausedEv, thread, action_times, M, stepDelay,
                 events, state, screenshot, action, cpc,
                 executed, gIter, gCall, gWin>>
  /\ UNCHANGED <<fileVars, brVars, wrapVars, statVars, callVars, histVars>>

\* the statements of the loop body outside the per-step try statements:
\* self._rate_limit() (179), the status update with action_to_dict and the
\* append to the recent actions (245-252), time.sleep (253)
UnprotectedPcs == {"l179", "l245", "l253"}

\* one of them raises: control passes to except Exception of _run_loop (254)
W_Crash(w) ==
  /\ wpc[w] \in UnprotectedPcs
  /\ Goto(w, "l255")
  /\ sleepRem' = [sleepRem EXCEPT ![w] = 0]
  /\ UNCHANGED <<stopEv, pausedEv, thread, status, action_times, M, stepDelay,
                 step, events, state, screenshot, action, cpc,
                 executed, gIter, gCall, gWin>>
  /\ UNCHANGED <<fileVars, extVars>>

\* logger.exception(...); last_error = "loop_crash: ..."  (255-257)
W_CrashRecord(w) ==
  /\ wpc[w] = "l255"
  /\ SetError("loop_crash")
  /\ Goto(w, "l259")
  /\ UNCHANGED <<stopEv, pausedEv, thread, action_times, M, stepDelay,
                 step, events, state, screenshot, action, sleepRem, cpc,
                 executed, gIter, gCall, gWin>>
  /\ UNCHANGED <<fileVars, extVars>>

\* finally: running = False, paused = True; the thread ends (258-261)
W_Finally(w) ==
  /\ wpc[w] = "l259"
  /\ status' = [status EXCEPT !.running = FALSE, !.paused = TRUE]
  /\ Goto(w, "dead")
  /\ step' = [step EXCEPT ![w] = 0]
  /\ events' = [events EXCEPT ![w] = "none"]
  /\ state' = [state EXCEPT ![w] = "empty"]
  /\ screenshot' = [screenshot EXCEPT ![w] = "empty"]
  /\ action' = [action EXCEPT ![w] = NoAction]
  /\ gIter' = [gIter EXCEPT ![w] = NoIter]
  /\ UNCHANGED <<stopEv, pausedEv, thread, action_times, M, stepDelay,
                 sleepRem, cpc, executed, gCall, gWin>>
  /\ UNCHANGED <<fileVars, extVars>>

\* ------------------------------------------------------------ the control thread
\* a command handler of the bot calls start(), pause(), resume() or stop()
C_Begin(ops) ==
  /\ cpc = "idle"
  /\ cpc' \in ops
  /\ UNCHANGED <<stopEv, pausedEv, thread, status, action_times, M, stepDelay,
                 wpc, step, events, state, screenshot, action, sleepRem,
                 executed, gIter, gCall, gWin>>
  /\ UNCHANGED <<fileVars, extVars>>

\* start() without its guard
StartSeesAlive_never == FALSE

\* self._thread and self._thread.is_alive()  (111)
StartSeesAlive == thread # NoThread /\ Alive(thread)

\* start(): if self._thread and self._thread.is_alive(): return  (111-112)
C_StartCheck ==
  /\ cpc = "start_111"
  /\ cpc' = IF StartSeesAlive THEN "start_ret" ELSE "start_113"
  /\ gCall' = [gCall EXCEPT !.sawAlive = (AliveSet # {})]
  /\ UNCHANGED <<stopEv, pausedEv, thread, status, action_times, M, stepDelay,
                 wpc, step, events, state, screenshot, action, sleepRem,
                 executed, gIter, gWin>>
  /\ UNCHANGED <<fileVars, extVars>>

\* start(): self._stop.clear()  (113)
C_StartClearStop ==
  /\ cpc = "start_113"
  /\ stopEv' = FALSE
  /\ cpc' = "start_114"
  /\ UNCHANGED <<pausedEv, thread, status, action_times, M, stepDelay,
                 wpc, step, events, state, screenshot, action, sleepRem,
                 executed, gIter, gCall, gWin>>
  /\ UNCHANGED <<fileVars, extVars>>

\* start(): self._paused.clear()  (114)
C_StartClearPaused ==
  /\ cpc = "start_114"
  /\ pausedEv' = FALSE
  /\ cpc' = "start_115"
  /\ UNCHANGED <<stopEv, thread, status, action_times, M, stepDelay,
                 wpc, step, events, state, screenshot, action, sleepRem,
                 executed, gIter, gCall, gWin>>
  /\ UNCHANGED <<fileVars, extVars>>

\* start(): self._thread = threading.Thread(...); self._thread.start()  (115-116)
C_StartSpawn ==
  /\ cpc = "start_115"
  /\ \E w \in WorkerIds :
       /\ ~Alive(w)
       /\ \A v \in WorkerIds : ~Alive(v) => w <= v
       /\ thread' = w
       /\ wpc' = [wpc EXCEPT ![w] = "l174"]
       /\ step' = [step EXCEPT ![w] = 0]
       /\ sleepRem' = [sleepRem EXCEPT ![w] = 0]
       /\ ResetLocals(w)
  /\ cpc' = "start_117"
  /\ gCall' = [gCall EXCEPT !.spawned = TRUE]
  /\ UNCHANGED <<stopEv, pausedEv, status, action_times, M, stepDelay,
                 executed, gIter, gWin>>
  /\ gStop' = [w \in WorkerIds |->
                 IF Alive(w) \/ ~gStop[w].on THEN gStop[w] ELSE NoStop]
  /\ gResume' = [w \in WorkerIds |-> Alive(w) /\ gResume[w]]
  /\ UNCHANGED <<fileVars, extOther>>

\* start(): with the lock: running = True, paused = False  (117-119)
C_StartStatus ==
  /\ cpc = "start_117"
  /\ status' = [status EXCEPT !.running = TRUE, !.paused = FALSE]
  /\ cpc' = "start_ret"
  /\ UNCHANGED <<stopEv, pausedEv, thread, action_times, M, stepDelay,
                 wpc, step, events, state, screenshot, action, sleepRem,
                 executed, gIter, gCall, gWin>>
  /\ UNCHANGED <<fileVars, extVars>>

\* start() or stop() returns to the command handler
C_Return ==
  /\ cpc \in {"start_ret", "stop_ret"}
  /\ cpc' = "idle"
  /\ gCall' = NoCall
  /\ UNCHANGED <<stopEv, pausedEv, thread, status, action_times, M, stepDelay,
                 wpc, step, events, state, screenshot, action, sleepRem,
                 executed, gIter, gWin>>
  /\ UNCHANGED <<fileVars, extVars>>

\* pause(): self._paused.set()  (122)
C_PauseSet ==
  /\ cpc = "pause_122"
  /\ SetPaused
  /\ cpc' = "pause_123"
  /\ UNCHANGED <<stopEv, thread, status, action_times, M, stepDelay,
                 wpc, step, events, state, screenshot, action, sleepRem,
                 executed, gCall>>
  /\ gResume' = [w \in WorkerIds |-> FALSE]
  /\ UNCHANGED <<fileVars, extOther, gStop>>

\* pause(): with the lock: paused = True  (123-124)
C_PauseStatus ==
  /\ cpc = "pause_123"
  /\ status' = [status EXCEPT !.paused = TRUE]
  /\ cpc' = "idle"
  /\ UNCHANGED <<stopEv, pausedEv, thread, action_times, M, stepDelay,
                 wpc, step, events, state, screenshot, action, sleepRem,
                 executed, gIter, gCall, gWin>>
  /\ UNCHANGED <<fileVars, extVars>>

\* a resume() that leaves the pause signal as it is
AfterResume_kept(p) == p
\* the pause signal after self._paused.clear()
AfterResume(p) == FALSE

\* resume(): self._paused.clear()  (127)
C_ResumeClear ==
  /\ cpc = "resume_127"
  /\ pausedEv' = AfterResume(pausedEv)
  /\ gIter' = [w \in WorkerIds |->
                 IF wpc[w] \in PerceptionPcs \cup {"l207"} /\ gIter[w].sig = "pause"
                 THEN [gIter[w] EXCEPT !.sig = "resumed"] ELSE gIter[w]]
  /\ gWin' = NoWin
  /\ cpc' = "resume_128"
  /\ UNCHANGED <<stopEv, thread, status, action_times, M, stepDelay,
                 wpc, step, events, state, screenshot, action, sleepRem,
                 executed, gCall>>
  /\ gResume' = [w \in WorkerIds |->
                   \/ gResume[w]
                   \/ gStop[w].on /\ pausedEv /\ ~stopEv /\ wpc[w] \in PausePollPcs]
  /\ UNCHANGED <<fileVars, extOther, gStop>>

\* resume(): with the lock: paused = False  (128-129)
C_ResumeStatus ==
  /\ cpc = "resume_128"
  /\ status' = [status EXCEPT !.paused = FALSE]
  /\ cpc' = "idle"
  /\ UNCHANGED <<stopEv, pausedEv, thread, action_times, M, stepDelay,
                 wpc, step, events, state, screenshot, action, sleepRem,
                 executed, gIter, gCall, gWin>>
  /\ UNCHANGED <<fileVars, extVars>>

\* stop(): self._stop.set()  (132)
C_StopSet ==
  /\ cpc = "stop_132"
  /\ stopEv' = TRUE
  /\ gIter' = [w \in WorkerIds |->
                 IF wpc[w] \in PerceptionPcs
                 THEN [gIter[w] EXCEPT !.sig = "stop"] ELSE gIter[w]]
  /\ cpc' = "stop_133"
  /\ UNCHANGED <<pausedEv, thread, status, action_times, M, stepDelay,
                 wpc, step, events, state, screenshot, action, sleepRem,
                 executed, gCall, gWin>>
  /\ gStop' = [w \in WorkerIds |->
                 IF Alive(w) /\ gStop[w].on /\ ~gStop[w].set
                 THEN [NoStop EXCEPT !.set = TRUE, !.past = (wpc[w] \in PastCheckpointPcs),
                                     !.paused = pausedEv]
                 ELSE gStop[w]]
  /\ gResume' = [w \in WorkerIds |-> FALSE]
  /\ UNCHANGED <<fileVars, extOther>>

\* stop(): self._paused.clear()  (133)
C_StopClearPaused ==
  /\ cpc = "stop_133"
  /\ pausedEv' = FALSE
  /\ cpc' = "stop_134"
  /\ UNCHANGED <<stopEv, thread, status, action_times, M, stepDelay,
                 wpc, step, events, state, screenshot, action, sleepRem,
                 executed, gIter, gCall, gWin>>
  /\ UNCHANGED <<fileVars, extVars>>

\* stop(): if self._thread: self._thread.join(timeout=5.0)  (134-135): the join
\* returns when the thread has ended, or on its timeout while it is alive
C_StopJoin ==
  /\ cpc = "stop_134"
  /\ gCall' = [gCall EXCEPT !.joinTimedOut = (thread # NoThread /\ Alive(thread))]
  /\ cpc' = "stop_136"
  /\ UNCHANGED <<stopEv, pausedEv, thread, status, action_times, M, stepDelay,
                 wpc, step, events, state, screenshot, action, sleepRem,
                 executed, gIter, gWin>>
  /\ UNCHANGED <<fileVars, extVars>>

\* stop() that clears running only
StopStatus_running_only(s) == [s EXCEPT !.running = FALSE]

\* the status stop() leaves (137-138)
StopStatus(s) == [s EXCEPT !.running = FALSE, !.paused = TRUE]

\* stop(): with the lock: running = False, paused = True  (136-138)
C_StopStatus ==
  /\ cpc = "stop_136"
  /\ status' = StopStatus(status)
  /\ cpc' = "stop_ret"
  /\ UNCHANGED <<stopEv, pausedEv, thread, action_times, M, stepDelay,
                 wpc, step, events, state, screenshot, action, sleepRem,
                 executed, gIter, gCall, gWin>>
  /\ UNCHANGED <<fileVars, extVars>>

\* ------------------------------------------------------------ a second caller
\* start() takes no lock: a second thread that calls it runs the same
\* statements on the same fields.
T2_Other == <<fileVars, brVars, wrapVars, statVars, recVars, histVars>>

T2_Begin ==
  /\ cpc2 = "idle"
  /\ cpc2' = "start_111"
  /\ UNCHANGED <<ctlVars, T2_Other>>

\* start(): if self._thread and self._thread.is_alive(): return  (111-112)
T2_StartCheck ==
  /\ cpc2 = "start_111"
  /\ cpc2' = IF StartSeesAlive THEN "start_ret" ELSE "start_113"
  /\ UNCHANGED <<ctlVars, T2_Other>>

\* start(): self._stop.clear()  (113)
T2_StartClearStop ==
  /\ cpc2 = "start_113"
  /\ stopEv' = FALSE
  /\ cpc2' = "start_114"
  /\ UNCHANGED <<pausedEv, thread, status, action_times, M, stepDelay,
                 wpc, step, events, state, screenshot, action, sleepRem, cpc,
                 executed, gIter, gCall, gWin>>
  /\ UNCHANGED T2_Other

\* start(): self._paused.clear()  (114)
T2_StartClearPaused ==
  /\ cpc2 = "start_114"
  /\ pausedEv' = FALSE
  /\ cpc2' = "start_115"
  /\ UNCHANGED <<stopEv, thread, status, action_times, M, stepDelay,
                 wpc, step, events, state, screenshot, action, sleepRem, cpc,
                 executed, gIter, gCall, gWin>>
  /\ UNCHANGED T2_Other

\* start(): self._thread = threading.Thread(...); self._thread.start()  (115-116)
T2_StartSpawn ==
  /\ cpc2 = "start_115"
  /\ \E w \in WorkerIds :
       /\ ~Alive(w)
       /\ \A v \in WorkerIds : ~Alive(v) => w <= v
       /\ thread' = w
       /\ wpc' = [wpc EXCEPT ![w] = "l174"]
       /\ step' = [step EXCEPT ![w] = 0]
       /\ sleepRem' = [sleepRem EXCEPT ![w] = 0]
       /\ ResetLocals(w)
  /\ cpc2' = "start_117"
  /\ UNCHANGED <<stopEv, pausedEv, status, action_times, M, stepDelay, cpc,
                 executed, gIter, gCall, gWin>>
  /\ gStop' = [w \in WorkerIds |->
                 IF Alive(w) \/ ~gStop[w].on THEN gStop[w] ELSE NoStop]
  /\ gResume' = [w \in WorkerIds |-> Alive(w) /\ gResume[w]]
  /\ UNCHANGED <<fileVars, brVars, wrapVars, statVars, recVars>>

\* start(): with the lock: running = True, paused = False  (117-119)
T2_StartStatus ==
  /\ cpc2 = "start_117"
  /\ status' = [status EXCEPT !.running = TRUE, !.paused = FALSE]
  /\ cpc2' = "start_ret"
  /\ UNCHANGED <<stopEv, pausedEv, thread, action_times, M, stepDelay,
                 wpc, step, events, state, screenshot, action, sleepRem, cpc,
                 executed, gIter, gCall, gWin>>
  /\ UNCHANGED T2_Other

\* start() returns to its caller
T2_Return ==
  /\ cpc2 = "start_ret"
  /\ cpc2' = "idle"
  /\ UNCHANGED <<ctlVars, T2_Other>>

T2_StartOps ==
  \/ T2_Begin \/ T2_StartCheck \/ T2_StartClearStop \/ T2_StartClearPaused
  \/ T2_StartSpawn \/ T2_StartStatus \/ T2_Return

\* ------------------------------------------------------------ specifications
\* What the collaborators of the loop may do in a run: the event lists the
\* bridge returns, the texts the decision provider returns, and which of the
\* external calls may raise.
PWait0 == MkPayload("json", "wait", 0, 0, TRUE)
PButtons == MkPayload("json", "buttons", 0, 1, TRUE)

\* Spec: every control call against the loop; the bridge answers, the capture
\* finds no window (so no step is persisted), the provider returns a valid
\* WaitAction, max_actions_per_minute = 1.
EnvSpec ==
  [events |-> {"none", "badge"}, bridgeFail |-> FALSE, captureFail |-> TRUE,
   payloads |-> {PWait0}, geminiRaise |-> FALSE, inputFail |-> FALSE,
   shots |-> {}, logFail |-> FALSE,
   handlers |-> {TRUE}, handlerRaise |-> FALSE]

\* SpecRate: the rate limit for every max_actions_per_minute in 1..MaxM, with
\* start, pause and resume; the provider returns valid actions of both kinds
\* and the actuator may fail; the capture finds no window.
EnvRate ==
  [events |-> {"none"}, bridgeFail |-> FALSE, captureFail |-> TRUE,
   payloads |-> {PWait0, PButtons}, geminiRaise |-> FALSE, inputFail |-> TRUE,
   shots |-> {}, logFail |-> FALSE,
   handlers |-> {TRUE}, handlerRaise |-> FALSE]

AllOps == {"start_111", "pause_122", "resume_127", "stop_132"}
RateOps == {"start_111", "pause_122", "resume_127"}

\* the steps of _run_loop every run takes
WorkerLoop(w, E, cap) ==
  \/ W_LoopTop(w, cap) \/ W_CheckPaused(w) \/ W_SleepDoneToTop(w) \/ W_RateLimit(w)
  \/ W_Bridge(w, E) \/ W_Capture(w, E) \/ W_Dispatch(w, E)
  \/ W_CheckpointPaused(w) \/ W_CheckpointStop(w)
  \/ W_Decide(w, E) \/ W_Execute(w, E) \/ W_ExecSleepDone(w)
  \/ W_LogStep(w, E) \/ W_StatusUpdate(w)

StartOps ==
  \/ C_StartCheck \/ C_StartClearStop \/ C_StartClearPaused \/ C_StartSpawn
  \/ C_StartStatus \/ C_Return
PauseResumeOps == C_PauseSet \/ C_PauseStatus \/ C_ResumeClear \/ C_ResumeStatus
StopOps == C_StopSet \/ C_StopClearPaused \/ C_StopJoin \/ C_StopStatus

Init ==
  /\ InitCtl(1, 0)
  /\ InitBr /\ InitWrap /\ InitStat /\ InitRecent(FALSE) /\ InitHist(TRUE)

Next ==
  \/ Tick
  \/ C_Begin(AllOps) \/ StartOps \/ PauseResumeOps \/ StopOps
  \/ \E w \in WorkerIds :
       \/ WorkerLoop(w, EnvSpec, MaxStep)
       \/ W_RateSleepDone(w)
       \/ W_HandlerPauseSet(w) \/ W_HandlerPauseStatus(w)
       \/ W_Finally(w)

Spec == Init /\ [][Next]_vars

InitRate ==
  /\ \E m \in 1..MaxM : InitCtl(m, 0)
  /\ InitBr /\ InitWrap /\ InitStat /\ InitRecent(FALSE) /\ InitHist(FALSE)

NextRate ==
  \/ Tick
  \/ C_Begin(RateOps) \/ StartOps \/ PauseResumeOps
  \/ \E w \in WorkerIds :
       \/ WorkerLoop(w, EnvRate, MaxM + 1)
       \/ W_RateSleepDone(w)
       \/ W_InputErrSleepDone(w)

SpecRate == InitRate /\ [][NextRate]_vars


\* SpecLoop: a run of the loop (start() only, so it is never stopped) against
\* a provider that may raise or return any of Payloads; the bridge and the
\* actuator may raise, the capture finds no window.
EnvLoop ==
  [events |-> {"none", "plain", "badge"}, bridgeFail |-> TRUE, captureFail |-> TRUE,
   payloads |-> Payloads, geminiRaise |-> TRUE, inputFail |-> TRUE,
   shots |-> {}, logFail |-> FALSE,
   handlers |-> {TRUE}, handlerRaise |-> FALSE]

LoopOps == {"start_111"}

InitLoop ==
  /\ \E sd \in {0, 1} : InitCtl(1, sd)
  /\ InitBr /\ InitWrap /\ InitStat /\ InitRecent(FALSE) /\ InitHist(FALSE)

NextLoop ==
  \/ Tick
  \/ C_Begin(LoopOps) \/ StartOps
  \/ \E w \in WorkerIds :
       \/ WorkerLoop(w, EnvLoop, MaxStep)
       \/ W_RateSleepDone(w)
       \/ W_InputErrSleepDone(w)
       \/ W_HandlerPauseSet(w) \/ W_HandlerPauseStatus(w)

SpecLoop == InitLoop /\ [][NextLoop]_vars


\* SpecSteps: the step files over runs of the loop that are stopped and
\* started again; the capture returns one of two images, and a write of
\* log_step may fail.  No timestamp matters here, so no time passes: a run
\* ends when the rate limiter's deque of MaxM timestamps is full.
EnvSteps ==
  [events |-> {"none"}, bridgeFail |-> FALSE, captureFail |-> FALSE,
   payloads |-> {PWait0}, geminiRaise |-> FALSE, inputFail |-> FALSE,
   shots |-> {"pngA", "pngB"}, logFail |-> TRUE,
   handlers |-> {TRUE}, handlerRaise |-> FALSE]

StepsOps == {"start_111", "stop_132"}

InitSteps ==
  /\ InitCtl(MaxM, 0)
  /\ InitBr /\ InitWrap /\ InitStat /\ InitRecent(FALSE) /\ InitHist(FALSE)

NextSteps ==
  \/ C_Begin(StepsOps) \/ StartOps \/ StopOps
  \/ \E w \in WorkerIds :
       \/ WorkerLoop(w, EnvSteps, MaxStep)
       \/ W_Finally(w)

SpecSteps == InitSteps /\ [][NextSteps]_vars

\* SpecFaults: a run of the loop (start() only) in which each of the five
\* per-step calls may fail: bridge, capture, provider, actuator, step logger.
PMove == MkPayload("json", "move", 0, 0, TRUE)

EnvFaults ==
  [events |-> {"none", "badge"}, bridgeFail |-> TRUE, captureFail |-> TRUE,
   payloads |-> {PWait0, PButtons, PMove}, geminiRaise |-> TRUE, inputFail |-> TRUE,
   shots |-> {"png"}, logFail |-> TRUE,
   handlers |-> {TRUE}, handlerRaise |-> FALSE]

InitFaults ==
  /\ InitCtl(MaxM, 0)
  /\ InitBr /\ InitWrap /\ InitStat /\ InitRecent(FALSE) /\ InitHist(FALSE)

NextFaults ==
  \/ Tick
  \/ C_Begin(LoopOps) \/ StartOps
  \/ \E w \in WorkerIds :
       \/ WorkerLoop(w, EnvFaults, MaxStep)
       \/ W_InputErrSleepDone(w)
       \/ W_HandlerPauseSet(w) \/ W_HandlerPauseStatus(w)

SpecFaults == InitFaults /\ [][NextFaults]_vars

\* SpecDispatch: one run of the loop with every kind of event list, with and
\* without a handler set (set_event_handler, 105-108), a handler that may
\* raise, and a bridge and a capture that may fail.
EnvDispatch ==
  [events |-> {"none", "plain", "badge"}, bridgeFail |-> TRUE,
   captureFail |-> TRUE, payloads |-> {PWait0}, geminiRaise |-> FALSE,
   inputFail |-> FALSE, shots |-> {"png"}, logFail |-> FALSE,
   handlers |-> {TRUE, FALSE}, handlerRaise |-> TRUE]

InitDispatch ==
  /\ InitCtl(MaxM, 0)
  /\ InitBr /\ InitWrap /\ InitStat /\ InitRecent(FALSE) /\ InitHist(FALSE)

NextDispatch ==
  \/ Tick
  \/ C_Begin(LoopOps) \/ StartOps
  \/ \E w \in WorkerIds :
       \/ WorkerLoop(w, EnvDispatch, MaxStep)
       \/ W_HandlerPauseSet(w) \/ W_HandlerPauseStatus(w)

SpecDispatch == InitDispatch /\ [][NextDispatch]_vars

\* SpecRecent: one run of the loop with the recent actions followed; the
\* actuator may fail.
EnvRecent ==
  [events |-> {"none"}, bridgeFail |-> FALSE, captureFail |-> TRUE,
   payloads |-> {PWait0, PButtons}, geminiRaise |-> FALSE, inputFail |-> TRUE,
   shots |-> {}, logFail |-> FALSE,
   handlers |-> {TRUE}, handlerRaise |-> FALSE]

InitRecentSpec ==
  /\ \E sd \in {0, 1} : InitCtl(MaxM, sd)
  /\ InitBr /\ InitWrap /\ InitStat /\ InitRecent(TRUE) /\ InitHist(FALSE)

NextRecent ==
  \/ Tick
  \/ C_Begin(LoopOps) \/ StartOps
  \/ \E w \in WorkerIds :
       \/ WorkerLoop(w, EnvRecent, MaxStep)
       \/ W_InputErrSleepDone(w)

SpecRecent == InitRecentSpec /\ [][NextRecent]_vars

\* SpecCrash: runs of the loop, started and stopped, in which a statement
\* outside the per-step handlers may raise.
CrashOps == {"start_111", "stop_132"}

InitCrash ==
  /\ InitCtl(MaxM, 0)
  /\ InitBr /\ InitWrap /\ InitStat /\ InitRecent(FALSE) /\ InitHist(FALSE)

NextCrash ==
  \/ Tick
  \/ C_Begin(CrashOps) \/ StartOps \/ StopOps
  \/ \E w \in WorkerIds :
       \/ WorkerLoop(w, EnvSpec, MaxStep)
       \/ W_Crash(w) \/ W_CrashRecord(w) \/ W_Finally(w)

SpecCrash == InitCrash /\ [][NextCrash]_vars

\* SpecCallers: start() and stop() called from one thread while a second
\* thread calls start(); the bridge reports no event, the capture finds no
\* window, the provider returns a valid WaitAction of 0 seconds; no call is
\* rate-limited and no sleep takes time.
EnvCallers ==
  [events |-> {"none"}, bridgeFail |-> FALSE, captureFail |-> TRUE,
   payloads |-> {PWait0}, geminiRaise |-> FALSE, inputFail |-> FALSE,
   shots |-> {}, logFail |-> FALSE,
   handlers |-> {TRUE}, handlerRaise |-> FALSE]

\* the iterations a worker makes in the runs of SpecCallers and SpecLive
MaxStepCallers == 1

CallersOps == {"start_111", "stop_132"}

InitCallers ==
  /\ InitCtl(MaxM, 0)
  /\ InitBr /\ InitWrap /\ InitStat /\ InitRecent(FALSE) /\ InitHist(FALSE)

NextCallers ==
  \/ C_Begin(CallersOps) \/ StartOps \/ StopOps
  \/ T2_StartOps
  \/ \E w \in WorkerIds :
       \/ WorkerLoop(w, EnvCallers, MaxStepCallers)
       \/ W_Finally(w)

SpecCallers == InitCallers /\ [][NextCallers]_vars

\* SpecLive: every control call against the loop, in the environment and
\* with the iterations of SpecCallers, where time passes, every thread that can take a step
\* eventually takes it, and every external call and sleep returns.
InitLive ==
  /\ InitCtl(1, 0)
  /\ InitBr /\ InitWrap /\ InitStat /\ InitRecent(FALSE) /\ InitHist(TRUE)

WorkerStep(w) ==
  WorkerLoop(w, EnvCallers, MaxStepCallers) \/ W_RateSleepDone(w) \/ W_Finally(w)

NextLive ==
  \/ Tick
  \/ C_Begin(AllOps) \/ StartOps \/ PauseResumeOps \/ StopOps
  \/ \E w \in WorkerIds : WorkerStep(w)

FairLive ==
  /\ WF_vars(Tick)
  /\ WF_vars(StartOps \/ PauseResumeOps \/ StopOps)
  /\ \A w \in WorkerIds : WF_vars(WorkerStep(w))

SpecLive == InitLive /\ [][NextLive]_vars /\ FairLive

\* ------------------------------------------------------------ BridgeClient
\* for attempt in range(2)  (bridge_client.py:65)
RequestAttempts == 2
\* the unanswered requests followed on one connection
MaxUnread == 3

\* what readline() may deliver: end of stream (b""), a line that is no JSON,
\* or a JSON object; a read timeout is an exception of its own
Lines == {"", "garbage", "{ok:true}", "{ok:false}"}
JsonValid(l) == l \in {"{ok:true}", "{ok:false}"}
\* json.loads(line.decode("utf-8")) of a valid line
JsonLoads(l) == IF l = "{ok:true}" THEN [ok |-> "true"] ELSE [ok |-> "false"]

\* positions of request() and close() that run with self._lock held
BrLockedPcs == {"l67", "l69", "l71", "l76", "l31"}

\* request() and close() without the lock
LockFree_always == TRUE

\* with self._lock: the lock can be taken
LockFree == brLock = 0

\* a failed cycle that leaves the connection open
CloseAfterFailure_never(attempt) == FALSE
\* only the first failed cycle closes the connection
CloseAfterFailure_first(attempt) == attempt = 0

\* except Exception: self._close_locked() runs after a failure of any attempt
CloseAfterFailure(attempt) == TRUE

\* a loop of one attempt more
Retries_once_more(attempt) == attempt + 1 < RequestAttempts + 1
\* for attempt in range(2): after the failure of attempt, another one follows
Retries(attempt) == attempt + 1 < RequestAttempts

\* a thread calls request(obj) (59-62)
B_Request(t) ==
  /\ brPc[t] = "idle"
  /\ brPc' = [brPc EXCEPT ![t] = "l64"]
  /\ brOut' = [brOut EXCEPT ![t] = NoResponse]
  /\ gBr' = [gBr EXCEPT ![t] = NoBrCall]
  /\ UNCHANGED <<brLock, brConn, brAttempt, gBrLast>>
  /\ UNCHANGED <<ctlVars, fileVars, wrapVars, statVars, recVars, callVars, histVars>>

\* a thread calls close() (29)
B_CloseCall(t) ==
  /\ brPc[t] = "idle"
  /\ brPc' = [brPc EXCEPT ![t] = "l30"]
  /\ UNCHANGED <<brLock, brConn, brAttempt, brOut, gBr, gBrLast>>
  /\ UNCHANGED <<ctlVars, fileVars, wrapVars, statVars, recVars, callVars, histVars>>

\* with self._lock: entered by request() (64) or by close() (30)
B_Acquire(t) ==
  /\ brPc[t] \in {"l64", "l30"}
  /\ LockFree
  /\ brLock' = t
  /\ brPc' = [brPc EXCEPT ![t] = IF brPc[t] = "l64" THEN "l67" ELSE "l31"]
  /\ brAttempt' = [brAttempt EXCEPT ![t] = 0]
  /\ brConn' = [brConn EXCEPT !.by = <<0, 0>>,
                              !.unread = [i \in 1..Len(@) |-> "old"]]
  /\ UNCHANGED <<brOut, gBr, gBrLast>>
  /\ UNCHANGED <<ctlVars, fileVars, wrapVars, statVars, recVars, callVars, histVars>>

\* close(): self._close_locked(), and the lock is released (31, 33-45)
B_Close(t) ==
  /\ brPc[t] = "l31"
  /\ brConn' = NoConn
  /\ brLock' = 0
  /\ brPc' = [brPc EXCEPT ![t] = "idle"]
  /\ UNCHANGED <<brAttempt, brOut, gBr, gBrLast>>
  /\ UNCHANGED <<ctlVars, fileVars, wrapVars, statVars, recVars, callVars, histVars>>

\* self._ensure_connected_locked() (67, 47-57)
B_EnsureConnected(t) ==
  /\ brPc[t] = "l67"
  /\ gBr' = [gBr EXCEPT ![t].attempts = @ + 1]
  /\ IF brConn.sock /\ brConn.file
     THEN /\ UNCHANGED brConn
          /\ brPc' = [brPc EXCEPT ![t] = "l69"]
     ELSE \/ \* create_connection and makefile succeed
             /\ brConn' = [sock |-> TRUE, file |-> TRUE, by |-> <<t, brAttempt[t]>>,
                           unread |-> <<>>]
             /\ brPc' = [brPc EXCEPT ![t] = "l69"]
          \/ \* create_connection raises, after self._close_locked()
             /\ brConn' = NoConn
             /\ brPc' = [brPc EXCEPT ![t] = "l76"]
          \/ \* makefile raises, after self._sock = sock
             /\ brConn' = [sock |-> TRUE, file |-> FALSE, by |-> <<t, brAttempt[t]>>,
                           unread |-> <<>>]
             /\ brPc' = [brPc EXCEPT ![t] = "l76"]
  /\ UNCHANGED <<brLock, brAttempt, brOut, gBrLast>>
  /\ UNCHANGED <<ctlVars, fileVars, wrapVars, statVars, recVars, callVars, histVars>>

\* self._file.write(payload); self._file.flush()  (69-70)
B_Write(t) ==
  /\ brPc[t] = "l69"
  /\ \/ \* the payload is sent: the bridge will answer it with one line
        /\ brPc' = [brPc EXCEPT ![t] = "l71"]
        /\ brConn' = [brConn EXCEPT !.unread =
                        IF Len(@) < MaxUnread THEN Append(@, "own") ELSE @]
        /\ gBr' = [gBr EXCEPT ![t].writes = Min(3, @ + 1),
                              ![t].wrote = [by |-> brConn.by, attempt |-> brAttempt[t]]]
     \/ \* write or flush raises
        /\ brPc' = [brPc EXCEPT ![t] = "l76"]
        /\ UNCHANGED <<brConn, gBr>>
  /\ UNCHANGED <<brLock, brAttempt, brOut, gBrLast>>
  /\ UNCHANGED <<ctlVars, fileVars, wrapVars, statVars, recVars, callVars, histVars>>

\* line = self._file.readline(); ...; return json.loads(line.decode("utf-8"))  (71-74)
B_Read(t) ==
  /\ brPc[t] = "l71"
  /\ \/ \E l \in Lines :
          \* a line that arrives answers the oldest unanswered request
          /\ l # "" => brConn.unread # <<>>
          /\ brConn' = IF l = "" THEN brConn
                       ELSE [brConn EXCEPT !.unread = Tail(@)]
          /\ IF l # "" /\ JsonValid(l)
             THEN /\ brOut' = [brOut EXCEPT ![t] = JsonLoads(l)]
                  /\ brLock' = 0
                  /\ brPc' = [brPc EXCEPT ![t] = "returned"]
                  /\ gBr' = [gBr EXCEPT ![t].via = brConn.by, ![t].line = l,
                                        ![t].answer = Head(brConn.unread)]
                  /\ gBrLast' = "ok"
             ELSE /\ brPc' = [brPc EXCEPT ![t] = "l76"]
                  /\ gBr' = [gBr EXCEPT ![t].line = l,
                                        ![t].answer = IF l = "" THEN @
                                                      ELSE Head(brConn.unread)]
                  /\ UNCHANGED <<brLock, brOut, gBrLast>>
     \/ \* the read times out: the answer, if any, arrives later
        /\ brPc' = [brPc EXCEPT ![t] = "l76"]
        /\ UNCHANGED <<brLock, brConn, brOut, gBr, gBrLast>>
  /\ UNCHANGED brAttempt
  /\ UNCHANGED <<ctlVars, fileVars, wrapVars, statVars, recVars, callVars, histVars>>

\* except Exception: self._close_locked(); then the next attempt, or after
\* the last one raise ConnectionError (75-78)
B_Except(t) ==
  /\ brPc[t] = "l76"
  /\ gBr' = [gBr EXCEPT ![t].failed = @ + 1]
  /\ brConn' = IF CloseAfterFailure(brAttempt[t]) THEN NoConn ELSE brConn
  /\ brAttempt' = [brAttempt EXCEPT ![t] = @ + 1]
  /\ IF Retries(brAttempt[t])
     THEN /\ brPc' = [brPc EXCEPT ![t] = "l67"]
          /\ UNCHANGED <<brLock, gBrLast>>
     ELSE /\ brPc' = [brPc EXCEPT ![t] = "raised"]
          /\ brLock' = 0
          /\ gBrLast' = "error"
  /\ UNCHANGED brOut
  /\ UNCHANGED <<ctlVars, fileVars, wrapVars, statVars, recVars, callVars, histVars>>

\* the caller goes on after request() returned or raised
B_Done(t) ==
  /\ brPc[t] \in {"returned", "raised"}
  /\ brPc' = [brPc EXCEPT ![t] = "idle"]
  /\ UNCHANGED <<brLock, brConn, brAttempt, brOut, gBr, gBrLast>>
  /\ UNCHANGED <<ctlVars, fileVars, wrapVars, statVars, recVars, callVars, histVars>>

\* SpecBridge: NClients threads calling request() and close() on one client
InitBridge ==
  /\ InitCtl(1, 0)
  /\ InitBr /\ InitWrap /\ InitStat /\ InitRecent(FALSE) /\ InitHist(FALSE)

NextBridge ==
  \E t \in BrThreads :
    \/ B_Request(t) \/ B_CloseCall(t) \/ B_Acquire(t) \/ B_Close(t)
    \/ B_EnsureConnected(t) \/ B_Write(t) \/ B_Read(t) \/ B_Except(t)
    \/ B_Done(t)

SpecBridge == InitBridge /\ [][NextBridge]_vars


\* ------------------------------------------- BridgeClient typed wrappers
\* bool(x) of the value of a response field (None when the field is missing)
Truthy(v) == v \in {"true", "one", "str"}
Returned(v) == [kind |-> "return", value |-> v]
Raised(e) == [kind |-> "raise", value |-> e]

\* bridge_client.py:80-82
ping(resp) ==
  Returned(IF Truthy(resp.ok) /\ Truthy(resp.pong) THEN "True" ELSE "False")

\* bridge_client.py:84-91
get_state(resp) ==
  IF ~Truthy(resp.ok) THEN Raised("bridge state error")
  ELSE IF resp.state # "dict" THEN Raised("bridge state invalid")
  ELSE Returned("state")

\* bridge_client.py:93-104; resp.get("events", []) is [] when the field is
\* missing
get_events(resp) ==
  IF ~Truthy(resp.ok) THEN Raised("bridge events error")
  ELSE IF resp.events = "missing" THEN Returned("[]")
  ELSE IF resp.events # "list" THEN Raised("bridge events invalid")
  ELSE Returned("events")

\* bridge_client.py:106-107; the response is dropped
set_debug(resp) == Returned("None")

Wr_Ping(resp) ==
  /\ wrapCall' = [wrapper |-> "ping", resp |-> resp, out |-> ping(resp)]
  /\ UNCHANGED <<ctlVars, fileVars, brVars, statVars, recVars, callVars, histVars>>

Wr_GetState(resp) ==
  /\ wrapCall' =
       [wrapper |-> "get_state", resp |-> resp, out |-> get_state(resp)]
  /\ UNCHANGED <<ctlVars, fileVars, brVars, statVars, recVars, callVars, histVars>>

Wr_GetEvents(resp) ==
  /\ wrapCall' =
       [wrapper |-> "get_events", resp |-> resp, out |-> get_events(resp)]
  /\ UNCHANGED <<ctlVars, fileVars, brVars, statVars, recVars, callVars, histVars>>

Wr_SetDebug(resp) ==
  /\ wrapCall' =
       [wrapper |-> "set_debug", resp |-> resp, out |-> set_debug(resp)]
  /\ UNCHANGED <<ctlVars, fileVars, brVars, statVars, recVars, callVars, histVars>>

\* Every wrapper on every response request() can return.
InitWrapSpec ==
  /\ InitCtl(1, 0)
  /\ InitBr /\ InitWrap /\ InitStat /\ InitRecent(FALSE) /\ InitHist(FALSE)

NextWrap ==
  \E resp \in Responses :
    \/ Wr_Ping(resp) \/ Wr_GetState(resp) \/ Wr_GetEvents(resp)
    \/ Wr_SetDebug(resp)

SpecWrap == InitWrapSpec /\ [][NextWrap]_vars

\* what the wrapper's contract asks of the response: ok true, and the
\* wrapper's payload field present and of its type
PayloadOk(wrapper, resp) ==
  CASE wrapper = "ping" -> resp.pong \in {"true", "false"}
    [] wrapper = "get_state" -> resp.state = "dict"
    [] wrapper = "get_events" -> resp.events = "list"
    [] OTHER -> TRUE
BadResponse(wrapper, resp) ==
  resp.ok \in {"missing", "false"} \/ ~PayloadOk(wrapper, resp)


\* ------------------------------------------- self._status and its lock
\* Every "with self._status_lock:" block of decision_loop.py, one statement at
\* a time: a thread enters a block (todo: its statements, named by source
\* line), acquires the lock, executes the statements, releases the lock.
U_Other == <<ctlVars, fileVars, brVars, wrapVars, recVars, callVars, histVars>>

\* the dict objects in use
Refs(so, wl, sn) ==
  {so.last_state, so.last_action, wl.state, sn.v.last_state,
   sn.v.last_action} \ {NoneRef}
\* a new dict object takes the first free place
Fresh(used) == CHOOSE i \in ObjIds \ used : \A j \in ObjIds \ used : i <= j
\* objects no reference leads to are gone
Collect(h, live) == [i \in ObjIds |-> IF i \in live THEN h[i] ELSE "free"]

\* json.dumps / json.loads on the values a status holds (bool, int, str, None
\* and dicts that came out of json.loads): the text of a value, and the value
\* of a text
json_dumps(v) == <<"json", v>>
json_loads(text) == text[2]

\* threading.Lock: acquire() goes through when no thread holds the lock
StatusLockFree_always(t) == TRUE
StatusLockFree(t) == status_lock = "free"

\* json.loads builds a new dict for every dict of the text
CopyOfDict_shared(ref, fresh) == ref
CopyOfDict(ref, fresh) == IF ref = NoneRef THEN NoneRef ELSE fresh

S_Enter(t, stmts) ==
  /\ spc[t] = "idle"
  /\ spc' = [spc EXCEPT ![t] = "acquire"]
  /\ todo' = [todo EXCEPT ![t] = stmts]

\* with self._status_lock: (entry)
S_Acquire(t) ==
  /\ spc[t] = "acquire"
  /\ StatusLockFree(t)
  /\ status_lock' = t
  /\ spc' = [spc EXCEPT ![t] = "locked"]
  /\ UNCHANGED <<status_obj, heap, todo, wloc, snapshot, now, gDone>>
  /\ UNCHANGED U_Other

\* the assignment at a source line
Assign(so, stmt, wl, t_, ref) ==
  CASE stmt = "l118" -> [so EXCEPT !.running = TRUE]
    [] stmt = "l119" -> [so EXCEPT !.paused = FALSE]
    [] stmt = "l124" -> [so EXCEPT !.paused = TRUE]
    [] stmt = "l129" -> [so EXCEPT !.paused = FALSE]
    [] stmt = "l137" -> [so EXCEPT !.running = FALSE]
    [] stmt = "l138" -> [so EXCEPT !.paused = TRUE]
    [] stmt = "l246" -> [so EXCEPT !.last_step = wl.step]
    [] stmt = "l247" -> [so EXCEPT !.last_state = wl.state]
    [] stmt = "l248" -> [so EXCEPT !.last_action = ref]
    [] stmt = "l249" -> [so EXCEPT !.last_action_t = t_]
    [] stmt = "l260" -> [so EXCEPT !.running = FALSE]
    [] stmt = "l261" -> [so EXCEPT !.paused = TRUE]

\* the four fields an iteration writes at lines 246-249
StepFields(dv) ==
  [last_step |-> dv.last_step, last_state |-> dv.last_state,
   last_action |-> dv.last_action, last_action_t |-> dv.last_action_t]

\* one statement of a block that writes self._status; line 248 stores the new
\* dict action_to_dict(action) built, line 249 the time utc_now_iso() read
S_Exec(t) ==
  /\ spc[t] = "locked"
  /\ todo[t] # <<>>
  /\ Head(todo[t]) # "l145"
  /\ LET stmt == Head(todo[t])
         f == Fresh(Refs(status_obj, wloc, snapshot))
         h1 == IF stmt = "l248" THEN [heap EXCEPT ![f] = wloc.action]
               ELSE heap
     IN /\ status_obj' = Assign(status_obj, stmt, wloc, now, f)
        /\ heap' = Collect(h1, Refs(status_obj', wloc, snapshot))
        /\ now' = IF stmt = "l249" THEN now + 1 ELSE now
        /\ gDone' = IF stmt = "l249"
                    THEN gDone \cup {StepFields(DeepValue(heap', status_obj'))}
                    ELSE gDone
  /\ todo' = [todo EXCEPT ![t] = Tail(@)]
  /\ UNCHANGED <<status_lock, spc, wloc, snapshot>>
  /\ UNCHANGED U_Other

\* decision_loop.py:145 (under the lock):
\* AgentStatus(**json.loads(json.dumps(self._status.__dict__)))
S_Copy ==
  /\ spc["reader"] = "locked"
  /\ todo["reader"] = <<"l145">>
  /\ LET used == Refs(status_obj, wloc, NoSnapshot)
         f1 == Fresh(used)
         f2 == Fresh(used \cup {f1})
         r1 == CopyOfDict(status_obj.last_state, f1)
         r2 == CopyOfDict(status_obj.last_action, f2)
         v == [status_obj EXCEPT !.last_state = r1, !.last_action = r2]
         h1 == [i \in ObjIds |->
                  IF i = r1 /\ r1 = f1
                  THEN json_loads(json_dumps(heap[status_obj.last_state]))
                  ELSE IF i = r2 /\ r2 = f2
                  THEN json_loads(json_dumps(heap[status_obj.last_action]))
                  ELSE heap[i]]
     IN /\ snapshot' = [held |-> TRUE, v |-> v,
                        asReturned |-> DeepValue(h1, v), mutated |-> FALSE]
        /\ heap' = Collect(h1, Refs(status_obj, wloc, snapshot'))
  /\ todo' = [todo EXCEPT !["reader"] = <<>>]
  /\ UNCHANGED <<status_lock, status_obj, spc, wloc, now, gDone>>
  /\ UNCHANGED U_Other

\* with self._status_lock: (exit)
S_Release(t) ==
  /\ spc[t] = "locked"
  /\ todo[t] = <<>>
  /\ status_lock' = "free"
  /\ spc' = [spc EXCEPT ![t] = "idle"]
  /\ UNCHANGED <<status_obj, heap, todo, wloc, snapshot, now, gDone>>
  /\ UNCHANGED U_Other

\* ---- the worker (decision_loop.py:172-261), as far as the status goes
\* line 174: while not self._stop.is_set()
SW_Top ==
  /\ wloc.pc = "top"
  /\ \/ /\ wloc.stop
        /\ wloc' = [wloc EXCEPT !.pc = "finally"]
     \/ /\ ~wloc.stop
        /\ now <= MaxNow
        /\ wloc' = [wloc EXCEPT !.pc = "perceive"]
  /\ UNCHANGED <<status_lock, status_obj, heap, spc, todo, snapshot, now, gDone>>
  /\ UNCHANGED U_Other

\* lines 186-188: get_state() returns a new dict
SW_Perceive ==
  /\ wloc.pc = "perceive"
  /\ LET f == Fresh(Refs(status_obj, [wloc EXCEPT !.state = NoneRef],
                         snapshot))
     IN /\ wloc' = [wloc EXCEPT !.pc = "decide", !.state = f]
        /\ heap' = Collect([heap EXCEPT ![f] = "state"],
                           Refs(status_obj, wloc', snapshot))
  /\ UNCHANGED <<status_lock, status_obj, spc, todo, snapshot, now, gDone>>
  /\ UNCHANGED U_Other

\* lines 212-231: the iteration's action
SW_Decide ==
  /\ wloc.pc = "decide"
  /\ wloc' = [wloc EXCEPT !.pc = "l245", !.action = "wait"]
  /\ UNCHANGED <<status_lock, status_obj, heap, spc, todo, snapshot, now, gDone>>
  /\ UNCHANGED U_Other

\* lines 245-249
SW_Update ==
  /\ wloc.pc = "l245"
  /\ S_Enter("worker", <<"l246", "l247", "l248", "l249">>)
  /\ wloc' = [wloc EXCEPT !.pc = "l251"]
  /\ UNCHANGED <<status_lock, status_obj, heap, snapshot, now, gDone>>
  /\ UNCHANGED U_Other

\* line 251, after the block is left: self._status.last_action is read for
\* self._recent_actions.append(...)
SW_RecentRead ==
  /\ wloc.pc = "l251"
  /\ spc["worker"] = "idle"
  /\ wloc' = [wloc EXCEPT !.pc = "l252",
                          !.bareRead = (status_lock # "worker")]
  /\ UNCHANGED <<status_lock, status_obj, heap, spc, todo, snapshot, now, gDone>>
  /\ UNCHANGED U_Other

\* line 252: step += 1
SW_StepInc ==
  /\ wloc.pc = "l252"
  /\ wloc' = [wloc EXCEPT !.pc = "top", !.step = @ + 1, !.bareRead = FALSE]
  /\ UNCHANGED <<status_lock, status_obj, heap, spc, todo, snapshot, now, gDone>>
  /\ UNCHANGED U_Other

\* lines 258-261
SW_Finally ==
  /\ wloc.pc = "finally"
  /\ S_Enter("worker", <<"l260", "l261">>)
  /\ wloc' = [wloc EXCEPT !.pc = "exit"]
  /\ UNCHANGED <<status_lock, status_obj, heap, snapshot, now, gDone>>
  /\ UNCHANGED U_Other

\* _run_loop returns; its locals are gone
SW_Exit ==
  /\ wloc.pc = "exit"
  /\ spc["worker"] = "idle"
  /\ wloc' = [NoLocals EXCEPT !.stop = wloc.stop]
  /\ heap' = Collect(heap, Refs(status_obj, wloc', snapshot))
  /\ UNCHANGED <<status_lock, status_obj, spc, todo, snapshot, now, gDone>>
  /\ UNCHANGED U_Other

\* ---- the control calls, as far as the status goes
\* start(), lines 111-119: a new worker when none is alive, then the block
SC_Start ==
  /\ wloc.pc = "dead"
  /\ S_Enter("control", <<"l118", "l119">>)
  /\ wloc' = [NoLocals EXCEPT !.pc = "top"]
  /\ UNCHANGED <<status_lock, status_obj, heap, snapshot, now, gDone>>
  /\ UNCHANGED U_Other

\* pause(), lines 122-124
SC_Pause ==
  /\ S_Enter("control", <<"l124">>)
  /\ UNCHANGED <<status_lock, status_obj, heap, wloc, snapshot, now, gDone>>
  /\ UNCHANGED U_Other

\* resume(), lines 127-129
SC_Resume ==
  /\ S_Enter("control", <<"l129">>)
  /\ UNCHANGED <<status_lock, status_obj, heap, wloc, snapshot, now, gDone>>
  /\ UNCHANGED U_Other

\* stop(), lines 132-138; the join may time out, so the block may run while
\* the worker still does
SC_Stop ==
  /\ S_Enter("control", <<"l137", "l138">>)
  /\ wloc' = [wloc EXCEPT !.stop = TRUE]
  /\ UNCHANGED <<status_lock, status_obj, heap, snapshot, now, gDone>>
  /\ UNCHANGED U_Other

\* ---- a reader (the bot's status command)
\* get_status(), lines 143-145
SR_GetStatus ==
  /\ S_Enter("reader", <<"l145">>)
  /\ UNCHANGED <<status_lock, status_obj, heap, wloc, snapshot, now, gDone>>
  /\ UNCHANGED U_Other

\* the caller changes the AgentStatus it was given: an attribute, and its
\* dicts in place
SR_Mutate ==
  /\ spc["reader"] = "idle"
  /\ snapshot.held
  /\ ~snapshot.mutated
  /\ snapshot' = [snapshot EXCEPT !.mutated = TRUE,
                                  !.v.last_error = "mutated"]
  /\ heap' = [i \in ObjIds |->
                IF i \in {snapshot.v.last_state, snapshot.v.last_action}
                THEN "mutated" ELSE heap[i]]
  /\ UNCHANGED <<status_lock, status_obj, spc, todo, wloc, now, gDone>>
  /\ UNCHANGED U_Other

InitStatSpec ==
  /\ InitCtl(1, 0)
  /\ InitBr /\ InitWrap /\ InitStat /\ InitRecent(FALSE) /\ InitHist(FALSE)

NextStatus ==
  \/ \E t \in StatThreads : S_Acquire(t) \/ S_Exec(t) \/ S_Release(t)
  \/ S_Copy
  \/ SW_Top \/ SW_Perceive \/ SW_Decide \/ SW_Update \/ SW_RecentRead
  \/ SW_StepInc \/ SW_Finally \/ SW_Exit
  \/ SC_Start \/ SC_Pause \/ SC_Resume \/ SC_Stop
  \/ SR_GetStatus \/ SR_Mutate

SpecStatus == InitStatSpec /\ [][NextStatus]_vars


\* ------------------------------------------------------------ properties

\* C1: for max_actions_per_minute = M > 0, the executed actions whose
\* timestamps lie in any trailing 60-second window never number more than M.
C1_AtMostMInWindow == M > 0 => Len(executed) <= M

\* C2: whenever stop() returns, the status has running = false and
\* paused = true, also when the join timed out and the worker still runs.
C2_StopLeavesStoppedStatus ==
  cpc = "stop_ret" => (~status.running /\ status.paused)
C2_Witness ==
  /\ cpc = "stop_ret"
  /\ gCall.joinTimedOut
  /\ \E w \in WorkerIds : wpc[w] \in {"l187", "l195", "l212", "l225"}

\* C3: a pause() or stop() requested while the worker is in steps 2-4 of an
\* iteration (the event handler's pause included) makes that iteration call
\* neither the decision provider nor the actuator.
C3_SignalInPerceptionSkips ==
  \A w \in WorkerIds : wpc[w] \in PostCheckpointPcs => gIter[w].sig = "none"
\* C3, as the code has it: the iteration is skipped unless a resume() cleared
\* the pause signal again before the checkpoint read it.
C3_SignalStandingAtCheckpointSkips ==
  \A w \in WorkerIds :
    wpc[w] \in PostCheckpointPcs => gIter[w].sig \in {"none", "resumed"}
C3_Witness ==
  \E w \in WorkerIds :
    /\ wpc[w] = "l208"
    /\ gIter[w].sig \in {"pause", "stop"}
    /\ events[w] = "badge"

\* C4: start() while the worker thread is alive creates no thread: never are
\* two workers alive, and when such a start() returns on a loop that is not
\* being stopped exactly one worker is alive.
C4_StartOnLiveWorkerSpawnsNone ==
  /\ Cardinality(AliveSet) <= 1
  /\ (cpc = "start_ret" /\ gCall.sawAlive) =>
        (~gCall.spawned /\ (~stopEv => Cardinality(AliveSet) = 1))
C4_Witness ==
  /\ cpc = "start_ret"
  /\ gCall.sawAlive
  /\ AliveSet # {}

\* C5: after start() returns, both signals are cleared, a worker is alive and
\* the status has running = true and paused = false, from Stopped and from
\* Paused (a live paused worker, or a worker that outlived stop()'s join).
C5_StartLeavesRunning ==
  cpc = "start_ret" =>
    /\ ~stopEv /\ ~pausedEv
    /\ AliveSet # {}
    /\ status.running /\ ~status.paused

C7_OneRetryOnFreshConnection ==
  \A t \in BrThreads :
    /\ gBr[t].attempts <= 2
    /\ (brPc[t] = "returned" /\ gBr[t].failed >= 1) =>
          /\ gBr[t].attempts = 2
          /\ gBr[t].failed = 1
          /\ gBr[t].via = <<t, 1>>
          /\ brOut[t] = JsonLoads(gBr[t].line)
C7_Witness ==
  \E t \in BrThreads : brPc[t] = "returned" /\ gBr[t].failed = 1

\* C8: when both cycles fail, request() raises after the two attempts and
\* leaves the client disconnected (no socket, no file); the next request()
\* opens a connection of its own.
C8_TwoFailuresRaiseDisconnected ==
  /\ \A t \in BrThreads :
       brPc[t] = "raised" => (gBr[t].attempts = 2 /\ gBr[t].failed = 2)
  /\ (gBrLast = "error" /\ brLock = 0) => (~brConn.sock /\ ~brConn.file)
  /\ \A t \in BrThreads :
       (gBrLast = "error" /\ brPc[t] \in {"l69", "l71"} /\ gBr[t].attempts = 1)
          => brConn.by = <<t, 0>>
C8_Witness ==
  \E t \in BrThreads :
    /\ gBrLast = "error"
    /\ brPc[t] = "l71"
    /\ gBr[t].attempts = 1
    /\ \E u \in BrThreads : u # t /\ brPc[u] = "raised"

\* C9: at most one request is in flight on a BridgeClient: the cycles of
\* concurrent callers (retries and close() included) never interleave.
C9_OneRequestInFlight ==
  /\ Cardinality({t \in BrThreads : brPc[t] \in BrLockedPcs}) <= 1
  /\ \A t \in BrThreads : brPc[t] \in BrLockedPcs => brLock = t
C9_Witness ==
  \E t, u \in BrThreads :
    /\ brPc[t] = "l71" /\ brAttempt[t] = 1
    /\ brPc[u] \in {"l64", "l30"}

\* C10: when the decision provider raises or returns a payload that is not a
\* valid action, the action of the iteration is the fallback Wait with
\* wait_ms = 500, and the worker goes on with the iteration and the loop.
C10_DecisionFailureFallsBack ==
  \A w \in WorkerIds :
    gIter[w].decFail =>
      /\ Alive(w)
      /\ wpc[w] \in {"l225", "l167", "l234", "l245", "l253"}
      /\ action[w].type = "wait"
      /\ action[w].wait_ms = 500
C10_Witness ==
  \E w \in WorkerIds :
    /\ gIter[w].decFail
    /\ wpc[w] = "l253"
    /\ step[w] = MaxStep
    /\ status.last_action.wait_ms = 500

\* C11: when the decision provider raises or returns a payload that is not a
\* valid action, last_error is set in that iteration to a value telling the
\* kind of failure: a provider exception, or an invalid payload.
C11_DecisionFailureSetsLastError ==
  \A w \in WorkerIds :
    (gIter[w].decFail /\ wpc[w] = "l225") =>
       IF action[w].note = "gemini_error"
       THEN status.last_error = "gemini_error"
       ELSE status.last_error \in {"schema_validation_error", "parse_error"}

PcRank(pc) ==
  IF pc = "l187" THEN 1
  ELSE IF pc = "l195" THEN 2
  ELSE IF pc \in {"l202", "h122", "h123"} THEN 3
  ELSE IF pc \in {"l207", "l207b", "l208"} THEN 4
  ELSE IF pc = "l212" THEN 5
  ELSE IF pc \in {"l225", "l167", "l231"} THEN 6
  ELSE IF pc = "l234" THEN 7
  ELSE IF pc = "l245" THEN 8
  ELSE IF pc = "l253" THEN 9
  ELSE 0
FailRank(kind) ==
  IF kind = "bridge" THEN 1
  ELSE IF kind = "capture" THEN 2
  ELSE IF kind = "decision" THEN 5
  ELSE IF kind = "actuation" THEN 6
  ELSE 7

\* C17: a failure of the bridge fetch, the capture, the decision provider, the
\* actuator or the step logger does not end the worker: it goes on with the
\* later steps of the iteration (the failed actuation with its back-off).
C17_StepFailureIsIsolated ==
  \A w \in WorkerIds :
    gIter[w].fail # "none" =>
      /\ Alive(w)
      /\ IF gIter[w].fail = "actuation" /\ wpc[w] = "l231"
         THEN TRUE
         ELSE PcRank(wpc[w]) > FailRank(gIter[w].fail)
C17_Witness ==
  \E w \in WorkerIds :
    /\ wpc[w] = "l253"
    /\ gIter[w].fail = "persistence"
    /\ status.last_error = "input_error"
    /\ step[w] >= 2

\* C18: every failure of a per-step call (bridge, decision, actuation, step
\* persistence) is recorded into last_error in the iteration where it occurs.
C18_StepFailureSetsLastError ==
  \A w \in WorkerIds :
    /\ gIter[w].fail = "bridge" => status.last_error = "bridge_error"
    /\ gIter[w].fail = "decision" =>
         status.last_error \in {"gemini_error", "schema_validation_error", "parse_error"}
    /\ gIter[w].fail = "actuation" => status.last_error = "input_error"
    /\ gIter[w].fail = "persistence" => status.last_error = "step_log_error"

\* C20: the loop persists each step index at most once, and the persisted
\* indices only increase, also over stop() followed by start().
C20_StepPersistedOnce == ~gLog.again

\* the worker start() created last has crashed: it recorded the crash and ended
Crashed ==
  /\ thread # NoThread /\ ~Alive(thread)
  /\ status.last_error = "loop_crash"

\* C16: after an exception has escaped the per-step handlers, the worker has
\* recorded the crash, no worker runs and status.running is false, until
\* start() is called again.
C16_CrashLeavesStopped ==
  (Crashed /\ cpc \in {"idle", "stop_132", "stop_133", "stop_134", "stop_136", "stop_ret"})
     => (~status.running /\ AliveSet = {})

\* the positions at which a bridge fetch, a capture, a decision call or an
\* actuation begins
BusyPcs == {"l187", "l195", "l212", "l225"}

\* C19: while the pause signal is set the worker begins no bridge fetch, no
\* capture, no decision call and no actuation, whatever point of the
\* iteration it had reached when pause() was called.
C19_PausedWorkerOnlyIdles ==
  [][\A w \in WorkerIds :
       (pausedEv /\ wpc'[w] # wpc[w]) => wpc'[w] \notin BusyPcs]_vars

\* C15: ping, get_state, get_events and set_debug raise whenever the response
\* has a missing or false ok field, or a payload field that is missing or of
\* the wrong type; none of them returns normally on such a response.
C15_WrappersRaiseOnBadResponse ==
  (wrapCall.wrapper # "none" /\ BadResponse(wrapCall.wrapper, wrapCall.resp))
     => wrapCall.out.kind = "raise"

\* C12: a value returned by get_status() shares no mutable state with the
\* live status: writes made after the return by the worker or by
\* start/pause/resume/stop leave the returned value as it was, and changes the
\* caller makes to the returned value never show in the live status.
C12_SnapshotSharesNoState ==
  /\ (snapshot.held /\ ~snapshot.mutated)
        => DeepValue(heap, snapshot.v) = snapshot.asReturned
  /\ LET live == DeepValue(heap, status_obj)
     IN "mutated" \notin {live.last_state, live.last_action, live.last_error}
C12_Witness ==
  /\ snapshot.held
  /\ snapshot.asReturned.last_action_t > 0
  /\ Deref(heap, snapshot.v.last_state) = "mutated"
  /\ status_obj.last_action_t > snapshot.asReturned.last_action_t
  /\ status_obj.running # snapshot.asReturned.running

\* C13: in every value get_status() returns, last_step, last_state,
\* last_action and last_action_t are the four values one completed iteration
\* wrote, or the four initial values, also when the worker is writing.
C13_SnapshotIsOneIteration ==
  snapshot.held =>
    StepFields(snapshot.asReturned) \in
      gDone \cup {StepFields(NoSnapshot.asReturned)}
C13_Witness ==
  /\ snapshot.held
  /\ snapshot.asReturned.last_action_t > 0
  /\ spc["worker"] = "locked"
  /\ Len(todo["worker"]) = 2
  /\ spc["reader"] = "acquire"

\* t is s with entries dropped from its front
IsSuffix(t, s) ==
  /\ Len(t) <= Len(s)
  /\ \A i \in 1..Len(t) : t[i] = s[Len(s) - Len(t) + i]

\* C21: a timestamp enters the rate limiter's buffer only in a step in which
\* the actuation returned without error; the step in which an actuation
\* fails leaves the buffer as it was.
C21_TimestampOnlyAfterSuccess ==
  [][/\ \A w \in WorkerIds :
          (wpc[w] = "l225" /\ wpc'[w] = "l231")
             => action_times' = action_times
     /\ (action_times' # <<>> /\ action_times'[Len(action_times')] = 0
         /\ ~IsSuffix(action_times', action_times))
          => \E w \in WorkerIds :
                /\ wpc[w] \in {"l225", "l167"}
                /\ wpc'[w] = "l234"
                /\ gIter'[w].fail # "actuation"]_vars
C21_Witness ==
  \E w \in WorkerIds :
    /\ wpc[w] = "l231"
    /\ gIter[w].fail = "actuation"
    /\ Len(action_times) = 1

\* C22: every action in the recent actions belongs to an iteration whose
\* actuation completed without error; the action of a failed actuation is
\* never among the recent actions handed to a later decision call.
C22_RecentHoldsOnlyExecuted ==
  \A i \in DOMAIN recent_actions.gFailed : ~recent_actions.gFailed[i]

\* C23: in a run of the worker the step counter starts at 0, grows by exactly
\* one at the end of every full iteration, whatever failed in it, and changes
\* at no other step; an iteration given up at the checkpoint leaves it as it
\* was.
C23_StepCountsFullIterations ==
  [][\A w \in WorkerIds :
       /\ (wpc[w] = "dead" /\ wpc'[w] # "dead") => step'[w] = 0
       /\ (wpc[w] = "l245" /\ wpc'[w] = "l253") => step'[w] = step[w] + 1
       /\ (wpc[w] # "dead" /\ wpc'[w] # "dead"
           /\ ~(wpc[w] = "l245" /\ wpc'[w] = "l253"))
            => step'[w] = step[w]]_vars
C23_Witness ==
  \E w \in WorkerIds :
    /\ wpc[w] = "l208"
    /\ step[w] = 1
    /\ status.last_error = "input_error"

\* C24: once last_error holds an error, no step of the worker and no step of
\* start, pause, resume or stop sets it back to empty; it changes only in a
\* step in which a handler of the worker records a failure.
C24_LastErrorNeverCleared ==
  [][status.last_error # "none" =>
       /\ status'.last_error # "none"
       /\ status'.last_error # status.last_error =>
            \E w \in WorkerIds :
              \/ gIter'[w].fail # gIter[w].fail
              \/ gIter'[w].decFail # gIter[w].decFail
              \/ wpc'[w] = "l259"]_vars
C24_Witness ==
  /\ status.last_error = "capture_error"
  /\ status.last_action_t = "t"
  /\ cpc = "stop_ret"

\* C25: when the fetch of state and events from the bridge fails in an
\* iteration, whichever of the two requests failed, the iteration goes on with
\* an empty state and an empty event list, and last_error holds the bridge
\* failure.
C25_BridgeFailureEmptiesBoth ==
  \A w \in WorkerIds :
    (wpc[w] = "l195" /\ gIter[w].fail = "bridge")
       => /\ state[w] = "empty"
          /\ events[w] = "none"
          /\ status.last_error = "bridge_error"

\* C26: when the rate gate finds as many retained timestamps as the maximum
\* M, it sleeps, for at least the minimum sleep; it is left only when the
\* oldest retained timestamp is a full window old, and the actuation of that
\* iteration starts no earlier.
C26_GateDelaysUntilOldestLeavesWindow ==
  [][\A w \in WorkerIds :
       /\ (wpc[w] = "l179" /\ wpc'[w] # "l179" /\ M > 0
           /\ Len(Prune(action_times)) >= M)
            => /\ wpc'[w] = "l160"
               /\ sleepRem'[w] >= MinSleepTicks
               /\ sleepRem'[w] + action_times'[1] >= Window
       /\ (wpc[w] = "l160" /\ wpc'[w] # "l160")
            => action_times[1] >= Window
       /\ (wpc[w] = "l225" /\ wpc'[w] # "l225" /\ gIter[w].gated)
            => action_times[1] >= Window]_vars
C26_Witness ==
  \E w \in WorkerIds :
    /\ M = 2
    /\ step[w] = 2
    /\ wpc[w] = "l167"
    /\ gIter[w].gated
    /\ action[w].type = "wait" /\ action[w].wait_ms = 0
    /\ status.last_action.type = "wait" /\ status.last_action.wait_ms = 0

\* C27: in each iteration the event handler is called exactly when a handler
\* is set and the fetched event list is not empty, with the events, state and
\* screenshot of that iteration; whether it returns or raises, the iteration
\* goes on to the checkpoint.
C27_HandlerCalledOnEvents ==
  [][\A w \in WorkerIds :
       (wpc[w] = "l202" /\ wpc'[w] # "l202") =>
          /\ gIter'[w].handler.called
               <=> (gIter'[w].handler.set /\ events[w] # "none")
          /\ gIter'[w].handler.called =>
               /\ gIter'[w].handler.events = events[w]
               /\ gIter'[w].handler.state = state[w]
               /\ gIter'[w].handler.screenshot = screenshot[w]
          /\ wpc'[w] \in {"h122", "l207"}
          /\ gIter'[w].handler.raised => wpc'[w] = "l207"]_vars
C27_Witness ==
  \E w \in WorkerIds :
    /\ wpc[w] = "l207"
    /\ gIter[w].handler.called
    /\ gIter[w].handler.raised
    /\ gIter[w].handler.events = "plain"
    /\ gIter[w].handler.state = "s"
    /\ gIter[w].handler.screenshot = "png"

\* the steps directory holds the image and the record of worker w's iteration
\* under its step index
Persisted(dir, w) ==
  /\ PngName(step[w]) \in DOMAIN dir
  /\ JsonName(step[w]) \in DOMAIN dir
  /\ dir[PngName(step[w])] = screenshot[w]
  /\ dir[JsonName(step[w])] =
       StepRecord(step[w], state[w], events[w], action[w])
\* the files of dir and d2 under every name but those of step index st agree
SameButStep(dir, d2, st) ==
  /\ DOMAIN d2 \ {PngName(st), JsonName(st)}
       = DOMAIN dir \ {PngName(st), JsonName(st)}
  /\ \A n \in DOMAIN dir \ {PngName(st), JsonName(st)} : d2[n] = dir[n]

\* C28 (as stated): the logging step of an iteration persists the StepRecord
\* under the iteration's step index exactly when the screenshot is not empty;
\* with an empty screenshot it writes nothing, and the index is still used up;
\* the iteration goes on in every case.
C28_PersistsIffScreenshot ==
  [][\A w \in WorkerIds :
       /\ (wpc[w] = "l234" /\ wpc'[w] # "l234") =>
            /\ wpc'[w] = "l245"
            /\ screenshot[w] = "empty" => steps_dir' = steps_dir
            /\ screenshot[w] # "empty" =>
                 /\ Persisted(steps_dir', w)
                 /\ SameButStep(steps_dir, steps_dir', step[w])
       /\ (wpc[w] = "l245" /\ wpc'[w] = "l253" /\ screenshot[w] = "empty")
            => step'[w] = step[w] + 1]_vars

\* C28 (amended): the logging step calls log_step under the iteration's step
\* index exactly when the screenshot is not empty, and persists the StepRecord
\* when that call returns; when the call raises, only the files of that index
\* may have changed; with an empty screenshot nothing is written, and the
\* index is still used up; the iteration goes on in every case.
C28_PersistsIffScreenshotAndLogged ==
  [][\A w \in WorkerIds :
       /\ (wpc[w] = "l234" /\ wpc'[w] # "l234") =>
            /\ wpc'[w] = "l245"
            /\ screenshot[w] = "empty" =>
                 (steps_dir' = steps_dir /\ gIter'[w].fail # "persistence")
            /\ screenshot[w] # "empty" =>
                 /\ SameButStep(steps_dir, steps_dir', step[w])
                 /\ gIter'[w].fail # "persistence" => Persisted(steps_dir', w)
       /\ (wpc[w] = "l245" /\ wpc'[w] = "l253" /\ screenshot[w] = "empty")
            => step'[w] = step[w] + 1]_vars
C28_Witness ==
  \E w \in WorkerIds :
    /\ wpc[w] = "l245"
    /\ step[w] = 1
    /\ screenshot[w] # "empty"
    /\ gIter[w].fail = "persistence"
    /\ PngName(1) \in DOMAIN steps_dir
    /\ FilesOf(steps_dir, 0, "png") = {}
    /\ status.last_error = "capture_error"

\* the fields of the status the worker derives
DerivedFields(so) ==
  [last_step |-> so.last_step, last_state |-> so.last_state,
   last_action |-> so.last_action, last_action_t |-> so.last_action_t,
   last_error |-> so.last_error]

\* C29: only the worker changes last_step, last_state, last_action,
\* last_action_t and last_error; every step that writes the status is taken
\* by the thread holding the status lock, and so is every step that reads it.
C29_StatusOnlyUnderLock ==
  [][/\ status_obj' # status_obj =>
          \E t \in StatThreads :
            spc[t] = "locked" /\ status_lock = t /\ todo'[t] # todo[t]
     /\ DerivedFields(status_obj') # DerivedFields(status_obj) =>
          todo'["worker"] # todo["worker"]
     /\ snapshot'.asReturned # snapshot.asReturned =>
          (spc["reader"] = "locked" /\ status_lock = "reader")
     /\ ~wloc'.bareRead]_vars

\* C30: a timestamp leaves the buffer only when it is older than the window:
\* the append after an actuation never pushes out a timestamp that is still
\* inside the window, for any accepted max_actions_per_minute.
C30_CapacityDropsNoLiveTimestamp ==
  [][(\E w \in WorkerIds :
        /\ wpc[w] \in {"l225", "l167"}
        /\ wpc'[w] = "l234"
        /\ gIter'[w].fail # "actuation")
       => \/ Len(action_times') = Len(action_times) + 1
          \/ action_times[1] > Window]_vars

\* C31: in an iteration the actuator is called at most once, for the action
\* the decision step of that iteration produced; when the call fails,
\* last_error holds the failure and the action is not executed again.
C31_NoRetryOfFailedAction ==
  [][\A w \in WorkerIds :
       /\ gIter'[w].execs <= 1
       /\ (wpc'[w] = "l225" /\ wpc[w] # "l225") => wpc[w] = "l212"
       /\ (gIter'[w].execFail /\ ~gIter[w].execFail)
            => status'.last_error = "input_error"]_vars
C31_Witness ==
  \E w \in WorkerIds :
    /\ wpc[w] = "l225"
    /\ step[w] = 1
    /\ gIter[w].execs = 0
    /\ status.last_error = "input_error"
    /\ status.last_action.type = "buttons"
    /\ action[w].type = "buttons"

\* C32: at most one worker thread is alive at any time, whatever the
\* interleaving of the start() and stop() calls, two concurrent start() calls
\* and a start() after a stop() whose join timed out included.
C32_AtMostOneWorkerAlive == Cardinality(AliveSet) <= 1

\* C33: whenever no start() or stop() call is in progress, status.running is
\* true only if a worker thread is alive, however the worker's exit (on the
\* stop signal or by a crash) interleaves with start() and stop().
C33_RunningOnlyWithWorker ==
  (cpc = "idle" /\ status.running) => AliveSet # {}

\* C34: while a worker is alive and no control call is in progress (neither
\* in the command thread nor in the worker's event handler), status.paused
\* equals the pause signal the worker polls.
C34_PausedMatchesSignal ==
  (/\ AliveSet # {}
   /\ cpc = "idle"
   /\ \A w \in WorkerIds : wpc[w] \notin {"h122", "h123"})
     => status.paused = pausedEv

\* C35: once stop() has set the stop signal, a worker that was alive then
\* never again goes from the loop condition into the loop body, and it calls
\* the actuator at most once more, and only if it was already between the
\* step-5 checkpoint and the actuation; so also when stop() returned on the
\* join timeout and start() is called while that worker is alive.
C35_StopEndsIterations ==
  \A w \in WorkerIds :
    gStop[w].set =>
      /\ ~gStop[w].began
      /\ gStop[w].acts <= 1
      /\ gStop[w].acts = 1 => gStop[w].past
C35_Witness ==
  \E w \in WorkerIds :
    /\ Alive(w)
    /\ gStop[w].set /\ gStop[w].past /\ gStop[w].acts = 1
    /\ cpc = "start_ret"
    /\ gCall.sawAlive

\* C36: when stop() is called while a worker is alive, running or paused,
\* and the worker's calls and sleeps return, the worker exits and leaves
\* status.running false and status.paused true.
C36_StopEndsWorker ==
  \A w \in WorkerIds :
    (cpc = "stop_132" /\ Alive(w))
      ~> (~Alive(w) /\ ~status.running /\ status.paused)
C36_Witness ==
  \E w \in WorkerIds :
    /\ ~Alive(w)
    /\ gStop[w].set /\ gStop[w].paused
    /\ ~status.running /\ status.paused
    /\ cpc = "stop_ret"
    /\ ~gCall.joinTimedOut

\* C37: when resume() is called for a live worker that idles on the pause
\* signal, and neither pause() nor stop() is called afterwards, the worker
\* completes a further full iteration (its step counter advances), provided
\* its calls and sleeps return.
C37_ResumeLeadsToIteration ==
  \A w \in WorkerIds : \A n \in 0..(MaxStepCallers - 1) :
    (/\ cpc = "resume_127"
     /\ Alive(w) /\ wpc[w] \in PausePollPcs /\ step[w] = n
     /\ pausedEv /\ ~stopEv)
      ~> (step[w] = n + 1 \/ cpc \in {"pause_122", "stop_132"})
C37_Witness ==
  \E w \in WorkerIds :
    /\ gResume[w]
    /\ wpc[w] = "l253"
    /\ step[w] = 1
    /\ ~pausedEv /\ ~stopEv
    /\ status.last_step = 0
    /\ cpc = "idle"

\* C38: a value request() returns is decoded from the line that answers the
\* call's own last write, read on the connection of that write in the same
\* attempt; no answer to an earlier request is left unread on the connection
\* when a call ends, because every failed attempt closes it.
C38_AnswerIsToOwnWrite ==
  /\ \A t \in BrThreads :
       brPc[t] = "returned" =>
         /\ gBr[t].answer = "own"
         /\ gBr[t].via = gBr[t].wrote.by
         /\ gBr[t].wrote.attempt = brAttempt[t]
         /\ brOut[t] = JsonLoads(gBr[t].line)
  /\ brLock = 0 => brConn.unread = <<>>
C38_Witness ==
  \E t, u \in BrThreads :
    /\ u # t
    /\ brPc[u] = "raised" /\ gBr[u].writes = 2
    /\ brPc[t] = "returned" /\ gBr[t].writes = 2 /\ gBr[t].answer = "own"
    /\ brConn.sock

\* C39: a request() call writes its payload at most twice, the second time
\* only after the first attempt failed, and then on a connection opened by
\* the retry, the failed attempt having closed the one it used.
C39_SecondWriteOnlyAfterFailure ==
  \A t \in BrThreads :
    /\ gBr[t].writes <= 2
    /\ gBr[t].writes <= gBr[t].failed + 1
    /\ gBr[t].writes = 2 => gBr[t].wrote = [by |-> <<t, 1>>, attempt |-> 1]
    /\ (brPc[t] = "l67" /\ brAttempt[t] = 1)
         => (~brConn.sock /\ ~brConn.file /\ brConn.unread = <<>>)
C39_Witness ==
  \E t \in BrThreads :
    /\ brPc[t] = "l71"
    /\ gBr[t].writes = 2
    /\ gBr[t].line = "garbage"
    /\ brConn.by = <<t, 1>>
    /\ brConn.unread = <<"own">>

====
